---- MODULE Spec2Model ----
(***************************************************************************)
(* A model of boton, an IRC bot: the per-server supervisor (bot.rs), the   *)
(* connection actor with its read and write tasks (irc.rs), the frame      *)
(* decoder and the line parser (irc.rs), the plugin registry               *)
(* (plugins/mod.rs, plugins/weather.rs) and the process entry (main.rs).   *)
(*                                                                         *)
(* Text is a sequence of one-character strings; an Option is a sequence of *)
(* length 0 (None) or 1 (Some).                                            *)
(***************************************************************************)
EXTENDS Naturals, Sequences, FiniteSets, TLC

\* ------------------------------------------------------------------------
\* Bounds of the model (not program constants)
\* ------------------------------------------------------------------------

\* Restarts the supervisors may make, all servers together, before the model
\* stops them.
MaxRestarts == 2

\* Longest partial line the model lets rest in a receive buffer.
MaxBuf == 1

\* Lines the server sends on the connection that is looked at closely.
MaxLines == 19

\* Lines the server sends before it falls silent, where the outbound side of
\* that connection is looked at.
OutLines == 8

\* Channels the bot of that connection is configured to join.
NumChannels == 12

\* ------------------------------------------------------------------------
\* Text helpers
\* ------------------------------------------------------------------------

CR == "\r"
LF == "\n"
SP == " "
COLON == ":"

None == <<>>
Some(x) == <<x>>

\* ------------------------------------------------------------------------
\* irc.rs: the line parser (nom combinators)
\* ------------------------------------------------------------------------

\* starts_with_colon: cond(input.starts_with(':'), take(1)); never fails.
starts_with_colon(input) ==
    IF input # <<>> /\ Head(input) = COLON
    THEN [rest |-> Tail(input), has_colon |-> TRUE]
    ELSE [rest |-> input, has_colon |-> FALSE]

\* skip_space: many0(char(' ')), drops every leading space; never fails.
RECURSIVE skip_space(_)
skip_space(input) ==
    IF input # <<>> /\ Head(input) = SP THEN skip_space(Tail(input)) ELSE input

\* Number of leading characters of input that are not a space.
RECURSIVE TillSpace(_)
TillSpace(input) ==
    IF input = <<>> \/ Head(input) = SP THEN 0 ELSE 1 + TillSpace(Tail(input))

\* take_till1(is_space): the longest prefix without a space, which must hold
\* at least one character.
take_till1(input) ==
    LET n == TillSpace(input) IN
    IF n = 0
    THEN [ok |-> FALSE, tok |-> <<>>, rest |-> input]
    ELSE [ok |-> TRUE, tok |-> SubSeq(input, 1, n),
          rest |-> SubSeq(input, n + 1, Len(input))]

\* parse_parameter that takes a colon-prefixed parameter up to its first
\* space only.
parse_parameter_TrailingAsToken(input) ==
    LET c == starts_with_colon(input)
        t == take_till1(c.rest)
    IN  IF c.has_colon /\ ~t.ok
        THEN [ok |-> TRUE, param |-> <<>>, rest |-> <<>>]
        ELSE IF t.ok
        THEN [ok |-> TRUE, param |-> t.tok, rest |-> skip_space(t.rest)]
        ELSE [ok |-> FALSE, param |-> <<>>, rest |-> input]

\* parse_parameter: a colon-prefixed parameter takes the rest of the line;
\* any other is a space-delimited token followed by skipped spaces.
parse_parameter(input) ==
    LET c == starts_with_colon(input) IN
    IF c.has_colon
    THEN [ok |-> TRUE, param |-> c.rest, rest |-> <<>>]
    ELSE LET t == take_till1(c.rest) IN
         IF t.ok
         THEN [ok |-> TRUE, param |-> t.tok, rest |-> skip_space(t.rest)]
         ELSE [ok |-> FALSE, param |-> <<>>, rest |-> input]

\* many0(parse_parameter): parameters until parse_parameter fails.
RECURSIVE many0_parameters(_)
many0_parameters(input) ==
    LET p == parse_parameter(input) IN
    IF p.ok THEN <<p.param>> \o many0_parameters(p.rest) ELSE <<>>

\* A command table that also knows the verbs in lower case.
CommandTryFrom_IgnoringCase(value) ==
    CASE value \in {<<"P", "I", "N", "G">>, <<"p", "i", "n", "g">>} -> [tag |-> "Ping", val |-> <<>>]
      [] value = <<"N", "O", "T", "I", "C", "E">> -> [tag |-> "Notice", val |-> <<>>]
      [] value = <<"P", "R", "I", "V", "M", "S", "G">> -> [tag |-> "Privmsg", val |-> <<>>]
      [] value = <<"0", "0", "1">> -> [tag |-> "RplWelcome", val |-> <<>>]
      [] value = <<"4", "3", "3">> -> [tag |-> "ErrNicknameInUse", val |-> <<>>]
      [] OTHER -> [tag |-> "Other", val |-> value]

\* impl TryFrom<&str> for Command.
CommandTryFrom(value) ==
    CASE value = <<"P", "I", "N", "G">> -> [tag |-> "Ping", val |-> <<>>]
      [] value = <<"N", "O", "T", "I", "C", "E">> -> [tag |-> "Notice", val |-> <<>>]
      [] value = <<"P", "R", "I", "V", "M", "S", "G">> -> [tag |-> "Privmsg", val |-> <<>>]
      [] value = <<"0", "0", "1">> -> [tag |-> "RplWelcome", val |-> <<>>]
      [] value = <<"4", "3", "3">> -> [tag |-> "ErrNicknameInUse", val |-> <<>>]
      [] OTHER -> [tag |-> "Other", val |-> value]

NoMessage == [source |-> None, command |-> [tag |-> "Other", val |-> <<>>],
              target |-> None, parameters |-> <<>>]

\* parse_line: status "ok" with the Message, "err" when a combinator fails,
\* "panic" when params[1..] is taken of an empty parameter list.
parse_line(line) ==
    LET c == starts_with_colon(line)
        s == take_till1(c.rest)
        afterSource == IF c.has_colon THEN skip_space(s.rest) ELSE c.rest
        source == IF c.has_colon THEN Some(s.tok) ELSE None
        v == take_till1(afterSource)
        params == many0_parameters(skip_space(v.rest))
    IN  IF c.has_colon /\ ~s.ok THEN [status |-> "err", msg |-> NoMessage]
        ELSE IF ~v.ok THEN [status |-> "err", msg |-> NoMessage]
        ELSE IF params = <<>> THEN [status |-> "panic", msg |-> NoMessage]
        ELSE [status |-> "ok",
              msg |-> [source |-> source,
                       command |-> CommandTryFrom(v.tok),
                       target |-> Some(params[1]),
                       parameters |-> Tail(params)]]

\* ------------------------------------------------------------------------
\* irc.rs: the frame decoder
\* ------------------------------------------------------------------------

\* The scan of process_buf over src.windows(2): pos is the (1-based) window
\* position, start the first byte not yet consumed, lines the lines so far.
RECURSIVE ScanWindows(_, _, _, _)
ScanWindows(src, pos, start, lines) ==
    IF pos + 1 > Len(src) THEN [lines |-> lines, start |-> start]
    ELSE IF src[pos] = CR /\ src[pos + 1] = LF
         THEN ScanWindows(src, pos + 1, pos + 2,
                          Append(lines, SubSeq(src, start, pos - 1)))
         ELSE ScanWindows(src, pos + 1, start, lines)

\* A decoder that gives up at the first line that does not parse.
RECURSIVE ParsedMessages_StopAtError(_)
ParsedMessages_StopAtError(lines) ==
    IF lines = <<>> THEN <<>>
    ELSE LET p == parse_line(Head(lines)) IN
         IF p.status = "ok" THEN <<p.msg>> \o ParsedMessages_StopAtError(Tail(lines))
         ELSE <<>>

\* The messages of the lines that parse, in order.
RECURSIVE ParsedMessages(_)
ParsedMessages(lines) ==
    IF lines = <<>> THEN <<>>
    ELSE LET p == parse_line(Head(lines)) IN
         IF p.status = "ok" THEN <<p.msg>> \o ParsedMessages(Tail(lines))
         ELSE ParsedMessages(Tail(lines))

\* process_buf: the messages decoded from the complete lines of src and the
\* bytes left in it (src.advance(start)); panic when a line makes parse_line
\* panic.
process_buf(src) ==
    LET s == ScanWindows(src, 1, 1, <<>>) IN
    [panic |-> \E k \in 1..Len(s.lines) : parse_line(s.lines[k]).status = "panic",
     res |-> ParsedMessages(s.lines),
     rest |-> SubSeq(src, s.start, Len(src))]

\* ------------------------------------------------------------------------
\* State
\* ------------------------------------------------------------------------

VARIABLES
    bots,      \* Config.bots: the configured server entries
    plugins,   \* Config.plugins: plugin name -> PluginConfig
    main,      \* main(): [pc, k], awaiting the k-th reconnection handle
    sup,       \* per server, the reconnection task of Config::spawn_tasks
    gen,       \* per server, the number of generations started so far
    entry,     \* per server, the index in bots of the Bot the current group runs
    group,     \* per server, the position / result of the task of Bot::spawn_tasks
    conn,      \* per server, the current generation's Connection tasks
    ctl,       \* per server, the current generation's send_handle task (control loop)
    plug,      \* per server, the current generation's weather plugin task
    zombies,   \* per server, Connection tasks of earlier generations still alive
    failures   \* per server, how many groups have completed with Err (history)

supVars == <<bots, plugins, main, sup, gen, entry, group, conn, ctl, plug, zombies,
             failures>>

\* One connection looked at closely: its socket input, its read task, its
\* broadcast channel and the subscribers of the channel.
VARIABLES
    wirePos,   \* bytes of Wire the read task has read from the socket
    chConn,    \* the connection's tasks and receive buffer
    chLog,     \* every Message the broadcast Sender has accepted, in order
    subs       \* per subscriber, its broadcast Receiver and what it has received

chanVars == <<wirePos, chConn, chLog, subs>>

VARIABLES
    outQ,      \* the outbound queue (mpsc): entries [from, msg] not yet taken
    outLog,    \* every entry the outbound queue has accepted, in order
    sock,      \* what the write task has flushed to the socket, flush by flush
    ctlTask,   \* the control loop: [pc, todo], todo the messages its call still enqueues
    replies    \* the weather plugin's per-message tasks that have a reply to send

outVars == <<outQ, outLog, sock, ctlTask, replies>>

VARIABLES
    codecIn,   \* what is handed to the decoder: [op, parts, arg]
    codecOut   \* what the decoder made of it

codecVars == <<codecIn, codecOut>>

vars == <<supVars, chanVars, outVars, codecVars>>

\* ------------------------------------------------------------------------
\* Configuration (bot.rs: Config, Bot)
\* ------------------------------------------------------------------------

Bot(host, port, tls, nick) ==
    [server |-> <<host, port>>, use_tls |-> tls, nick |-> nick,
     ident |-> "boton", real_name |-> "boton", channels |-> <<"#test">>]

\* Two servers with different host names, and two entries for one host name.
DistinctHosts == <<Bot("irc.a", 6667, FALSE, "n1"), Bot("irc.b", 6697, TRUE, "n2")>>
SameHost == <<Bot("irc.a", 6667, FALSE, "n1"), Bot("irc.a", 6697, TRUE, "n2")>>

Servers == {1, 2}

\* Config.plugins: no "weather" section, a section without the API key, a
\* section with it.
NoSection == <<>>
NoKey == [weather |-> <<>>]
WithKey == [weather |-> ("openweathermap-apikey" :> "k")]

\* ------------------------------------------------------------------------
\* plugins/weather.rs, plugins/mod.rs
\* ------------------------------------------------------------------------

\* WeatherPlugin::new(server, config.get("weather")): "err" when the section
\* is absent, "panic" when expect() finds no API key, else "ok".
WeatherPlugin_new(config) ==
    IF "weather" \notin DOMAIN config THEN "err"
    ELSE IF "openweathermap-apikey" \notin DOMAIN config.weather THEN "panic"
    ELSE "ok"

\* spawn_plugins: builds and spawns the one registered plugin; `?` returns
\* the construction error, a panic unwinds through it.
spawn_plugins(config) == WeatherPlugin_new(config)

\* ------------------------------------------------------------------------
\* irc.rs: the connection actor
\* ------------------------------------------------------------------------

\* No connection yet (the group has not connected).
NoConn == [pc |-> "none", read |-> "none", why |-> "none", write |-> "none",
           buf |-> <<>>]

\* Connection::from_socket followed by Connection::spawn_tasks: the joining
\* task awaits the read task; read and write task run; the buffer is empty.
Connection_spawn_tasks ==
    [pc |-> "await_read", read |-> "running", why |-> "none", write |-> "running",
     buf |-> <<>>]

\* What a socket read may give: bytes, end of stream, an I/O error.
PartialChunk == <<"x">>
LineChunk == <<"P", "I", "N", "G", " ", ":", "a", CR, LF>>
VerbOnlyChunk == <<"Q", CR, LF>>
SocketReads ==
    {[kind |-> "data", bytes |-> b] : b \in {PartialChunk, LineChunk, VerbOnlyChunk}}
    \cup {[kind |-> "eof", bytes |-> <<>>], [kind |-> "err", bytes |-> <<>>]}

\* The read task panics: its future, with recv_buffer in it, is dropped.
\* why records what ended it: "closed" (Err: closed connection by peer), "unread"
\* (panic: unread data in read buffer), "error" (any other Err or panic).
ReadFailed(c, why) == [c EXCEPT !.read = "panicked", !.why = why, !.buf = <<>>]

\* receive_messages with the end of the stream taken for an empty read.
receive_messages_IgnoringEof(c, input, rx) ==
    IF input.kind = "err" THEN ReadFailed(c, "error")
    ELSE IF input.kind = "eof" THEN c
    ELSE LET p == process_buf(c.buf \o input.bytes) IN
         IF p.panic THEN ReadFailed(c, "error")
         ELSE IF p.res # <<>> /\ rx = 0 THEN ReadFailed(c, "error")
         ELSE [c EXCEPT !.buf = p.rest]

\* One round of the read task's loop: receive_messages(...).await.unwrap(),
\* with rx the number of live broadcast receivers.
receive_messages(c, input, rx) ==
    IF input.kind = "err" THEN ReadFailed(c, "error")
    ELSE IF input.kind = "eof"
    THEN IF c.buf = <<>> THEN ReadFailed(c, "closed") ELSE ReadFailed(c, "unread")
    ELSE LET p == process_buf(c.buf \o input.bytes) IN
         IF p.panic THEN ReadFailed(c, "error")
         ELSE IF p.res # <<>> /\ rx = 0 THEN ReadFailed(c, "error")
         ELSE [c EXCEPT !.buf = p.rest]

\* The loop over the decoded messages taken from the back (messages.pop()).
RECURSIVE send_all_Reversed(_, _)
send_all_Reversed(messages, rx) ==
    IF rx = 0 \/ messages = <<>> THEN <<>>
    ELSE <<messages[Len(messages)]>>
         \o send_all_Reversed(SubSeq(messages, 1, Len(messages) - 1), rx)

\* for msg in messages { recv_messages_tx.send(msg)?; }: the messages the
\* broadcast Sender accepts, in the order it accepts them; send fails when
\* there is no receiver.
send_all(messages, rx) == IF rx = 0 THEN <<>> ELSE messages

\* What one round of receive_messages broadcasts.
receive_messages_sent(c, input, rx) ==
    IF input.kind # "data" THEN <<>>
    ELSE LET p == process_buf(c.buf \o input.bytes) IN
         IF p.panic THEN <<>> ELSE send_all(p.res, rx)

\* join_tasks with the read task's result dropped (`let _ = read_handle.await;`).
join_tasks_IgnoringRead(c) ==
    CASE c.pc = "await_read" /\ c.read \in {"panicked", "ended"} -> [c EXCEPT !.pc = "await_send"]
      [] c.pc = "await_send" /\ c.write = "panicked" -> [c EXCEPT !.pc = "err"]
      [] c.pc = "await_send" /\ c.write = "ended" -> [c EXCEPT !.pc = "ok"]
      [] OTHER -> c

\* The joining task of Connection::spawn_tasks: read_handle.await?, then
\* send_handle.await?, then Ok(()).
join_tasks(c) ==
    CASE c.pc = "await_read" /\ c.read = "panicked" -> [c EXCEPT !.pc = "err"]
      [] c.pc = "await_read" /\ c.read = "ended" -> [c EXCEPT !.pc = "await_send"]
      [] c.pc = "await_send" /\ c.write = "panicked" -> [c EXCEPT !.pc = "err"]
      [] c.pc = "await_send" /\ c.write = "ended" -> [c EXCEPT !.pc = "ok"]
      [] OTHER -> c

\* The joining task holds self.sent_messages.0 until it returns.
ConnSenders(c) == IF c.pc \in {"await_read", "await_send"} THEN 1 ELSE 0

Alive(c) == c.read = "running" \/ c.write = "running"
            \/ c.pc \in {"await_read", "await_send"}

\* IRC handles of server i's current generation: the one the group task holds
\* until it moves it into the control loop, the control loop's, the plugin's.
Handles(i) ==
    (IF group[i] = "plugins" THEN 1 ELSE 0)
    + (IF ctl[i] = "running" THEN 1 ELSE 0)
    + (IF plug[i] = "running" THEN 1 ELSE 0)

Running == main.pc = "await"

\* ------------------------------------------------------------------------
\* Initial state: Config::spawn_tasks has spawned every server's first group
\* and its reconnection task; main awaits the first reconnection handle.
\* ------------------------------------------------------------------------

SupInit ==
    /\ bots \in {DistinctHosts, SameHost}
    /\ plugins \in {NoSection, NoKey, WithKey}
    /\ main = [pc |-> "await", k |-> 1]
    /\ sup = [i \in Servers |-> "waiting"]
    /\ gen = [i \in Servers |-> 1]
    /\ entry = [i \in Servers |-> i]
    /\ group = [i \in Servers |-> "connect"]
    /\ conn = [i \in Servers |-> NoConn]
    /\ ctl = [i \in Servers |-> "none"]
    /\ plug = [i \in Servers |-> "none"]
    /\ zombies = [i \in Servers |-> {}]
    /\ failures = [i \in Servers |-> 0]

\* The broadcast Receiver of a subscriber: the position of the next message it
\* takes, and, as history, where it subscribed, what it received and how
\* often it was told that it lagged.
NoReceiver == [state |-> "none", start |-> 0, next |-> 0, got |-> <<>>, lagged |-> 0]

Subscribers == {"control", "plugin"}

\* The connection looked at closely is not used.
ChanIdle ==
    /\ wirePos = 0
    /\ chConn = NoConn
    /\ chLog = <<>>
    /\ subs = [s \in Subscribers |-> NoReceiver]

\* The control loop of the connection looked at closely is not started.
NoTask == [pc |-> "none", todo |-> <<>>]

OutIdle ==
    /\ outQ = <<>>
    /\ outLog = <<>>
    /\ sock = <<>>
    /\ ctlTask = NoTask
    /\ replies = {}

\* Nothing is handed to the decoder.
NoParts == [source |-> None, verb |-> [text |-> <<>>, tag |-> "none"],
            middles |-> <<>>, trailing |-> None, gap |-> 0, pad |-> FALSE]
NoResult == [op |-> "none"]

CodecIdle ==
    /\ codecIn = [op |-> "none", parts |-> NoParts, arg |-> <<>>]
    /\ codecOut = NoResult

Init == SupInit /\ ChanIdle /\ OutIdle /\ CodecIdle

\* ------------------------------------------------------------------------
\* bot.rs: the group task of Bot::spawn_tasks
\* ------------------------------------------------------------------------

\* The ways irc::connect / irc::connect_tls may end for a Bot.
ConnectOutcomes(bot) ==
    {"ok", "tcp_error"} \cup (IF bot.use_tls THEN {"tls_error"} ELSE {})

\* irc::connect(...).await? or irc::connect_tls(...).await?
GroupConnect(i) ==
    /\ Running
    /\ group[i] = "connect"
    /\ \E outcome \in ConnectOutcomes(bots[entry[i]]) :
        IF outcome = "ok"
        THEN /\ conn' = [conn EXCEPT ![i] = Connection_spawn_tasks]
             /\ group' = [group EXCEPT ![i] = "plugins"]
             /\ UNCHANGED failures
        ELSE /\ group' = [group EXCEPT ![i] = "err"]
             /\ failures' = [failures EXCEPT ![i] = @ + 1]
             /\ UNCHANGED conn
    /\ UNCHANGED <<bots, plugins, main, sup, gen, entry, ctl, plug, zombies>>
    /\ UNCHANGED <<chanVars, outVars, codecVars>>

\* plugins::spawn_plugins(&irc, plugin_configs).await?, then the spawn of the
\* control loop (send_handle), which takes the group's IRC handle.
GroupPlugins(i) ==
    /\ Running
    /\ group[i] = "plugins"
    /\ LET r == spawn_plugins(plugins) IN
        /\ group' = [group EXCEPT ![i] = IF r = "ok" THEN "await_irc" ELSE r]
        /\ plug' = [plug EXCEPT ![i] = IF r = "ok" THEN "running" ELSE @]
        /\ ctl' = [ctl EXCEPT ![i] = IF r = "ok" THEN "running" ELSE @]
        /\ failures' = [failures EXCEPT ![i] = IF r = "err" THEN @ + 1 ELSE @]
    /\ UNCHANGED <<bots, plugins, main, sup, gen, entry, conn, zombies>>
    /\ UNCHANGED <<chanVars, outVars, codecVars>>

\* handle.abort(): a task that has already ended stays as it ended.
abort(task) == IF task = "running" THEN "aborted" ELSE task

\* The plugin tasks left running.
AbortPlugins_Forgotten(task) == task

\* The plugin tasks after `for (_, handle) in plugs.iter() { handle.abort(); }`.
AbortPlugins(task) == abort(task)

\* The control loop task after `send_handle.abort()`.
AbortControlLoop(task) == abort(task)

\* A group task that also wakes up when its plugin task has ended.
irc_handle_ready_OrPluginEnded(i) ==
    conn[i].pc \in {"ok", "err"} \/ plug[i] \in {"err", "panicked"}

\* irc_handle.await returns: the joining task of the connection has ended.
irc_handle_ready(i) == conn[i].pc \in {"ok", "err"}

\* let res = irc_handle.await?; abort every plugin; abort the control loop; res
GroupAwaitIrc(i) ==
    /\ Running
    /\ group[i] = "await_irc"
    /\ irc_handle_ready(i)
    /\ plug' = [plug EXCEPT ![i] = AbortPlugins(@)]
    /\ ctl' = [ctl EXCEPT ![i] = AbortControlLoop(@)]
    /\ group' = [group EXCEPT ![i] = conn[i].pc]
    /\ failures' = [failures EXCEPT ![i] = IF conn[i].pc = "err" THEN @ + 1 ELSE @]
    /\ UNCHANGED <<bots, plugins, main, sup, gen, entry, conn, zombies>>
    /\ UNCHANGED <<chanVars, outVars, codecVars>>

\* The control loop: authenticate and every reply end the task with Err once
\* the outbound queue is closed (the write task is gone).
ControlLoopSendFails(i) ==
    /\ Running
    /\ ctl[i] = "running"
    /\ conn[i].write \in {"panicked", "ended"}
    /\ ctl' = [ctl EXCEPT ![i] = "failed"]
    /\ UNCHANGED <<bots, plugins, main, sup, gen, entry, group, conn, plug, zombies,
                   failures>>
    /\ UNCHANGED <<chanVars, outVars, codecVars>>

\* ------------------------------------------------------------------------
\* irc.rs: the tasks of the current generation's connection
\* ------------------------------------------------------------------------

\* The bytes a read leaves in the buffer stay within the model's bound.
FitsBuffer(c, input) ==
    input.kind = "data" => Len(process_buf(c.buf \o input.bytes).rest) <= MaxBuf

\* The read task reads the socket once and handles what it got.
ReadTask(i) ==
    /\ Running
    /\ conn[i].read = "running"
    /\ \E input \in SocketReads :
        /\ FitsBuffer(conn[i], input)
        /\ conn' = [conn EXCEPT ![i] = receive_messages(@, input, Handles(i))]
    /\ UNCHANGED <<bots, plugins, main, sup, gen, entry, group, ctl, plug, zombies,
                   failures>>
    /\ UNCHANGED <<chanVars, outVars, codecVars>>

\* The write task takes a queued message and the write or the flush fails:
\* send_message(...).await.unwrap() panics. The control loop has enqueued
\* messages (authenticate) once it was spawned.
WriteTaskFails(i) ==
    /\ Running
    /\ conn[i].write = "running"
    /\ ctl[i] # "none"
    /\ conn' = [conn EXCEPT ![i].write = "panicked"]
    /\ UNCHANGED <<bots, plugins, main, sup, gen, entry, group, ctl, plug, zombies,
                   failures>>
    /\ UNCHANGED <<chanVars, outVars, codecVars>>

\* The write task's recv() returns None once every sender is dropped.
WriteTaskEnds(i) ==
    /\ Running
    /\ conn[i].write = "running"
    /\ Handles(i) + ConnSenders(conn[i]) = 0
    /\ conn' = [conn EXCEPT ![i].write = "ended"]
    /\ UNCHANGED <<bots, plugins, main, sup, gen, entry, group, ctl, plug, zombies,
                   failures>>
    /\ UNCHANGED <<chanVars, outVars, codecVars>>

\* The joining task gets the result of the task it awaits.
JoinTask(i) ==
    /\ Running
    /\ join_tasks(conn[i]) # conn[i]
    /\ conn' = [conn EXCEPT ![i] = join_tasks(@)]
    /\ UNCHANGED <<bots, plugins, main, sup, gen, entry, group, ctl, plug, zombies,
                   failures>>
    /\ UNCHANGED <<chanVars, outVars, codecVars>>

\* ------------------------------------------------------------------------
\* irc.rs: connection tasks left behind by earlier generations. Their IRC
\* handles are dropped: no broadcast receiver, no sender but the joining task's.
\* ------------------------------------------------------------------------

\* A connection as it is kept once its group is gone: why, the record of what
\* ended the read task, is kept for the current generation only.
Detached(c) == [c EXCEPT !.why = "none"]

Replace(zs, z, z2) == (zs \ {z}) \cup (IF Alive(z2) THEN {Detached(z2)} ELSE {})

ZombieReadTask(i) ==
    /\ Running
    /\ \E z \in zombies[i] :
        /\ z.read = "running"
        /\ \E input \in SocketReads :
            /\ FitsBuffer(z, input)
            /\ zombies' = [zombies EXCEPT ![i] =
                               Replace(@, z, receive_messages(z, input, 0))]
    /\ UNCHANGED <<bots, plugins, main, sup, gen, entry, group, conn, ctl, plug,
                   failures>>
    /\ UNCHANGED <<chanVars, outVars, codecVars>>

ZombieWriteTaskEnds(i) ==
    /\ Running
    /\ \E z \in zombies[i] :
        /\ z.write = "running"
        /\ ConnSenders(z) = 0
        /\ zombies' = [zombies EXCEPT ![i] = Replace(@, z, [z EXCEPT !.write = "ended"])]
    /\ UNCHANGED <<bots, plugins, main, sup, gen, entry, group, conn, ctl, plug,
                   failures>>
    /\ UNCHANGED <<chanVars, outVars, codecVars>>

ZombieJoinTask(i) ==
    /\ Running
    /\ \E z \in zombies[i] :
        /\ join_tasks(z) # z
        /\ zombies' = [zombies EXCEPT ![i] = Replace(@, z, join_tasks(z))]
    /\ UNCHANGED <<bots, plugins, main, sup, gen, entry, group, conn, ctl, plug,
                   failures>>
    /\ UNCHANGED <<chanVars, outVars, codecVars>>

\* ------------------------------------------------------------------------
\* bot.rs: the reconnection task of Config::spawn_tasks
\* ------------------------------------------------------------------------

\* Restarts made so far, all servers together (every server starts at 1).
RECURSIVE SumGen(_)
SumGen(S) == IF S = {} THEN 0
             ELSE LET i == CHOOSE j \in S : TRUE IN (gen[i] - 1) + SumGen(S \ {i})
Restarts == SumGen(Servers)

\* The name the reconnection task of the i-th entry keeps: bot.server.0.
ServerName(i) == bots[i].server[1]

\* Config::spawn_task: self.bots.iter().find(|b| b.server.0 == server), as
\* an Option of the index found.
spawn_task(server) ==
    LET found == {k \in DOMAIN bots : bots[k].server[1] = server} IN
    IF found = {} THEN None
    ELSE Some(CHOOSE k \in found : \A j \in found : k <= j)

\* A reconnection task that gives up after the first failure.
Reconnection_GivingUp(result) ==
    CASE result = "ok" -> "clean"
      [] OTHER -> "failed"

\* What the reconnection task does with a finished group: "restart" after
\* Ok(Err(_)), "clean" after Ok(Ok(())), "failed" when handle.await? returns
\* the JoinError of a panicked group task.
Reconnection(result) ==
    CASE result = "err" -> "restart"
      [] result = "ok" -> "clean"
      [] OTHER -> "failed"

\* while handle.await?.is_err() { handle = bots.spawn_task(&server).await?; }
Supervisor(i) ==
    /\ Running
    /\ sup[i] = "waiting"
    /\ group[i] \in {"ok", "err", "panic"}
    /\ LET todo == Reconnection(group[i])
           found == spawn_task(ServerName(i))
       IN  IF todo = "restart" /\ found # None
           THEN /\ Restarts < MaxRestarts
                /\ gen' = [gen EXCEPT ![i] = @ + 1]
                /\ entry' = [entry EXCEPT ![i] = found[1]]
                /\ group' = [group EXCEPT ![i] = "connect"]
                /\ zombies' = [zombies EXCEPT ![i] =
                                  IF Alive(conn[i]) THEN @ \cup {Detached(conn[i])} ELSE @]
                /\ conn' = [conn EXCEPT ![i] = NoConn]
                /\ ctl' = [ctl EXCEPT ![i] = "none"]
                /\ plug' = [plug EXCEPT ![i] = "none"]
                /\ UNCHANGED sup
           ELSE /\ sup' = [sup EXCEPT ![i] = IF todo = "clean" THEN "clean" ELSE "failed"]
                /\ UNCHANGED <<gen, entry, group, zombies, conn, ctl, plug>>
    /\ UNCHANGED <<bots, plugins, main, failures>>
    /\ UNCHANGED <<chanVars, outVars, codecVars>>

\* ------------------------------------------------------------------------
\* main.rs
\* ------------------------------------------------------------------------

\* for handle in bot_handles { handle.await??; } Ok(())
Main ==
    /\ Running
    /\ sup[main.k] # "waiting"
    /\ main' = IF sup[main.k] = "failed" THEN [main EXCEPT !.pc = "exit_err"]
               ELSE IF main.k = Len(bots) THEN [main EXCEPT !.pc = "exit_ok"]
               ELSE [main EXCEPT !.k = @ + 1]
    /\ UNCHANGED <<bots, plugins, sup, gen, entry, group, conn, ctl, plug, zombies,
                   failures>>
    /\ UNCHANGED <<chanVars, outVars, codecVars>>

\* ------------------------------------------------------------------------
\* Specification
\* ------------------------------------------------------------------------

Next ==
    \/ \E i \in Servers : GroupConnect(i)
    \/ \E i \in Servers : GroupPlugins(i)
    \/ \E i \in Servers : GroupAwaitIrc(i)
    \/ \E i \in Servers : ControlLoopSendFails(i)
    \/ \E i \in Servers : ReadTask(i)
    \/ \E i \in Servers : WriteTaskFails(i)
    \/ \E i \in Servers : WriteTaskEnds(i)
    \/ \E i \in Servers : JoinTask(i)
    \/ \E i \in Servers : ZombieReadTask(i)
    \/ \E i \in Servers : ZombieWriteTaskEnds(i)
    \/ \E i \in Servers : ZombieJoinTask(i)
    \/ \E i \in Servers : Supervisor(i)
    \/ Main

Spec == Init /\ [][Next]_vars

\* Every task of the program that can take a step takes it: the tokio
\* runtime schedules every ready task. The socket (what a read returns, a
\* failing write) is the environment and owes nothing.
FairSpec ==
    /\ Spec
    /\ \A i \in Servers :
        /\ WF_vars(GroupConnect(i))
        /\ WF_vars(GroupPlugins(i))
        /\ WF_vars(GroupAwaitIrc(i))
        /\ WF_vars(JoinTask(i))
        /\ WF_vars(WriteTaskEnds(i))
        /\ WF_vars(ZombieJoinTask(i))
        /\ WF_vars(ZombieWriteTaskEnds(i))
        /\ WF_vars(Supervisor(i))
    /\ WF_vars(Main)

\* ------------------------------------------------------------------------
\* Properties
\* ------------------------------------------------------------------------

Eof == [kind |-> "eof", bytes |-> <<>>]
Pending(c) == c.pc \in {"await_read", "await_send"}
Completed(c) == c.pc \in {"ok", "err"}

\* C1: every group that completes with Err is followed by exactly one new
\* generation: the generations started are the failures handled plus the
\* first one; the reconnection task never stops while a failure is pending and
\* can restart at once, whatever the number of restarts made (up to the
\* model's bound); a generation that runs has its connection actor, its
\* control loop and its plugin.
C1_OneGenerationPerFailure ==
    \A i \in Servers :
        /\ gen[i] + (IF group[i] = "err" THEN 1 ELSE 0) = 1 + failures[i]
        /\ group[i] = "err" => sup[i] = "waiting"
        /\ (Running /\ group[i] = "err" /\ Restarts < MaxRestarts) => ENABLED Supervisor(i)
        /\ group[i] = "await_irc" =>
              conn[i].pc # "none" /\ ctl[i] # "none" /\ plug[i] # "none"

\* A transport that failed once and then succeeded: the second generation runs.
C1_Witness ==
    \E i \in Servers :
        /\ failures[i] = 1 /\ gen[i] = 2
        /\ group[i] = "await_irc" /\ conn[i].read = "running" /\ conn[i].write = "running"
        /\ ctl[i] = "running" /\ plug[i] = "running"

\* C2: once the group task has the connection handle's result, the control
\* loop and the plugin task of that generation are no longer running (they
\* were aborted or had ended), and the reconnection task starts a new
\* generation only from such a state.
C2_CancelledBeforeRespawn ==
    /\ [](\A i \in Servers :
            (group[i] \in {"ok", "err"} /\ Completed(conn[i])) =>
                ctl[i] # "running" /\ plug[i] # "running")
    /\ [][\A i \in Servers :
            gen'[i] # gen[i] => ctl[i] # "running" /\ plug[i] # "running"]_vars

\* A second generation whose handle completed and whose tasks were aborted.
C2_Witness ==
    \E i \in Servers :
        /\ gen[i] = 2 /\ group[i] = "err" /\ conn[i].pc = "err"
        /\ ctl[i] = "aborted" /\ plug[i] = "aborted"

\* C3 as stated: after a read of zero bytes on an empty buffer, with the
\* write task not failed, the completed handle reports a clean outcome.
C3_PeerCloseIsClean ==
    \A i \in Servers :
        (conn[i].why = "closed" /\ conn[i].write # "panicked" /\ Completed(conn[i]))
            => conn[i].pc = "ok"

\* C3 as amended: a read of zero bytes on an empty buffer makes the read task
\* fail, and the handle, once complete, reports a failure, never a clean
\* outcome.
C3_PeerCloseIsFailure ==
    \A i \in Servers :
        /\ (conn[i].read = "running" /\ conn[i].buf = <<>>) =>
              receive_messages(conn[i], Eof, Handles(i)).read = "panicked"
        /\ conn[i].why = "closed" =>
              conn[i].read = "panicked" /\ conn[i].pc \in {"await_read", "err"}

\* The peer closed between lines and the handle has completed.
C3_Witness ==
    \E i \in Servers :
        conn[i].why = "closed" /\ conn[i].write = "running" /\ conn[i].pc = "err"

\* C4: a read of zero bytes while a partial line is buffered makes the read
\* task fail, and the handle, once complete, reports a failure, never a
\* clean outcome.
C4_PeerCloseMidLineIsFatal ==
    \A i \in Servers :
        /\ (conn[i].read = "running" /\ conn[i].buf # <<>>) =>
              LET c == receive_messages(conn[i], Eof, Handles(i)) IN
              c.read = "panicked" /\ c.why = "unread"
        /\ conn[i].why = "unread" =>
              conn[i].read = "panicked" /\ conn[i].pc \in {"await_read", "err"}

\* The peer closed mid-line and the handle has completed.
C4_Witness ==
    \E i \in Servers : conn[i].why = "unread" /\ conn[i].pc = "err"

\* C5: while the process runs, a connection whose read task or write task has
\* failed does not keep its handle pending for ever.
C5_TransportFailureCompletes ==
    \A i \in Servers :
        (Running /\ Pending(conn[i])
         /\ (conn[i].read = "panicked" \/ conn[i].write = "panicked"))
            ~> (~Running \/ ~Pending(conn[i]))

\* C6: a completed handle means that neither the read task nor the write task
\* still runs.
C6_HandleAfterBothTasks ==
    \A i \in Servers :
        Completed(conn[i]) => conn[i].read # "running" /\ conn[i].write # "running"

\* C7: a reconnection task that has stopped has stopped cleanly, after a
\* clean outcome of the connection.
C7_StopsOnlyCleanly ==
    \A i \in Servers :
        sup[i] # "waiting" => sup[i] = "clean" /\ group[i] = "ok" /\ conn[i].pc = "ok"

\* C8: the group a reconnection task runs is built from the entry the task
\* was started for.
C8_SameServerEntry ==
    \A i \in Servers : bots[entry[i]] = bots[i]

\* C9: the process has exited only if every reconnection task ended cleanly.
C9_RunsUntilAllClean ==
    main.pc # "await" => \A i \in Servers : sup[i] = "clean"

\* ------------------------------------------------------------------------
\* One connection, its broadcast channel and its subscribers
\* ------------------------------------------------------------------------

RECV_MSG_CHAN == 16

\* What the server sends, line by line; every line carries its number.  Line 1
\* is a NOTICE, line 2 rejects the nick, line 3 is a bare prefix, which does
\* not parse, line 4 is the welcome, line 6 is a channel message of a user
\* that the weather plugin answers, line 8 is a 433 that does not name a
\* nick; all others are PINGs.
LineId(n) == ToString(n)
ServerPrefix == <<COLON, "s", SP>>
UserPrefix == <<COLON, "u", "!", "i", "@", "h", SP>>
WireLine(n) ==
    CASE n = 1 -> ServerPrefix \o <<"N", "O", "T", "I", "C", "E", SP, "*", SP, COLON, LineId(n), CR, LF>>
      [] n = 2 -> ServerPrefix \o <<"4", "3", "3", SP, "*", SP, "n", SP, COLON, LineId(n), CR, LF>>
      [] n = 3 -> <<COLON, LineId(n), CR, LF>>
      [] n = 4 -> ServerPrefix \o <<"0", "0", "1", SP, "n", "_", SP, COLON, LineId(n), CR, LF>>
      [] n = 6 -> UserPrefix \o <<"P", "R", "I", "V", "M", "S", "G", SP, "#", "a", SP,
                                          COLON, "\\", "w", "s", "e", "t", SP, LineId(n), CR, LF>>
      [] n = 8 -> ServerPrefix \o <<"4", "3", "3", SP, LineId(n), CR, LF>>
      [] OTHER -> <<"P", "I", "N", "G", SP, COLON, LineId(n), CR, LF>>

RECURSIVE WireBytes(_)
WireBytes(n) == IF n = 0 THEN <<>> ELSE WireBytes(n - 1) \o WireLine(n)
Wire == WireBytes(MaxLines)

\* Where each line ends on the wire.
LineEnds == [n \in 0..MaxLines |-> Len(WireBytes(n))]

\* The end of the first line that ends after position p of Wire (Len(Wire)
\* when there is none).
LineEnd(p) ==
    LET later == {n \in 1..MaxLines : LineEnds[n] > p} IN
    IF later = {} THEN Len(Wire)
    ELSE LineEnds[CHOOSE n \in later : \A m \in later : n <= m]

\* What a read of the socket may return after p bytes: the bytes up to the
\* end of the line, up to the end of the line after it, or the first three
\* bytes of a line.
WireReads(p) ==
    {[kind |-> "data", bytes |-> SubSeq(Wire, p + 1, q)] :
        q \in {r \in {LineEnd(p), LineEnd(LineEnd(p)), p + 3} :
                  /\ p < r /\ r <= LineEnd(LineEnd(p))
                  /\ r = p + 3 => \E n \in 0..MaxLines : LineEnds[n] = p}}

\* The channel Connection::from_socket makes, the connection's tasks, and the
\* Receiver get_channels makes for the control loop; the plugin has no
\* handle yet.
ChanInit ==
    /\ SupInit /\ bots = DistinctHosts /\ plugins = WithKey
    /\ wirePos = 0
    /\ chConn = Connection_spawn_tasks
    /\ chLog = <<>>
    /\ subs = [s \in Subscribers |->
                 IF s = "control" THEN [NoReceiver EXCEPT !.state = "open"]
                 ELSE NoReceiver]
    /\ OutIdle
    /\ CodecIdle

\* The live Receivers of the channel.
ReceiverCount == Cardinality({s \in Subscribers : subs[s].state = "open"})

\* A read task whose publishing waits until every subscriber has taken
\* everything published before.
CanPublish_WaitingForSubscribers(inputs) ==
    /\ chConn.read = "running"
    /\ inputs # {}
    /\ \A s \in Subscribers : subs[s].state = "open" => subs[s].next = Len(chLog)

\* The read task runs and the socket has something for it: read_buf returns,
\* and broadcast::Sender::send never waits.
CanPublish(inputs) ==
    /\ chConn.read = "running"
    /\ inputs # {}

\* The read task of the connection reads the socket once and gets one of
\* inputs.
ReadTaskReads(inputs) ==
    /\ CanPublish(inputs)
    /\ \E input \in inputs :
        /\ chConn' = receive_messages(chConn, input, ReceiverCount)
        /\ chLog' = chLog \o receive_messages_sent(chConn, input, ReceiverCount)
        /\ wirePos' = wirePos + Len(input.bytes)

ChanReadTask ==
    /\ ReadTaskReads(WireReads(wirePos))
    /\ UNCHANGED <<supVars, codecVars, outVars, subs>>

\* A clone that starts at the oldest message the channel keeps.
Subscribe_FromOldest(s) ==
    /\ subs[s].state = "none"
    /\ subs' = [subs EXCEPT ![s] = [NoReceiver EXCEPT !.state = "open",
                                                      !.start = Len(chLog),
                                                      !.next = IF Len(chLog) > RECV_MSG_CHAN
                                                               THEN Len(chLog) - RECV_MSG_CHAN
                                                               ELSE 0]]
    /\ UNCHANGED <<supVars, codecVars, outVars, wirePos, chConn, chLog>>

\* impl Clone for IRC, in spawn_plugins: received_messages_sender.subscribe()
\* gives a Receiver that starts at the channel's tail.
Subscribe(s) ==
    /\ subs[s].state = "none"
    /\ subs' = [subs EXCEPT ![s] = [NoReceiver EXCEPT !.state = "open",
                                                      !.start = Len(chLog),
                                                      !.next = Len(chLog)]]
    /\ UNCHANGED <<supVars, codecVars, outVars, wirePos, chConn, chLog>>

\* The ring of RECV_MSG_CHAN slots: the position of the message slot idx
\* holds, plus RECV_MSG_CHAN (a slot never written holds idx - RECV_MSG_CHAN).
SlotPosPlusLen(idx) ==
    LET written == {p \in 0..(Len(chLog) - 1) : p % RECV_MSG_CHAN = idx} IN
    IF written = {} THEN idx
    ELSE (CHOOSE p \in written : \A q \in written : q <= p) + RECV_MSG_CHAN

\* recv that hands out whatever the slot holds, without looking at the
\* position stored with it.
broadcast_recv_Stale(r) ==
    LET pos == SlotPosPlusLen(r.next % RECV_MSG_CHAN) IN
    IF pos = r.next
    THEN [kind |-> "empty", next |-> r.next, msg |-> NoMessage]
    ELSE [kind |-> "ok", next |-> r.next + 1, msg |-> chLog[(pos - RECV_MSG_CHAN) + 1]]

\* broadcast::Receiver::recv on Receiver r: the message at r.next, "empty"
\* (the call waits) when r has seen everything, "lagged" with r moved to the
\* oldest message kept when the slot was overwritten.
broadcast_recv(r) ==
    LET pos == SlotPosPlusLen(r.next % RECV_MSG_CHAN) IN
    IF pos = r.next + RECV_MSG_CHAN
    THEN [kind |-> "ok", next |-> r.next + 1, msg |-> chLog[(pos - RECV_MSG_CHAN) + 1]]
    ELSE IF pos = r.next
    THEN [kind |-> "empty", next |-> r.next, msg |-> NoMessage]
    ELSE LET oldest == Len(chLog) - RECV_MSG_CHAN IN
         IF oldest = r.next
         THEN [kind |-> "ok", next |-> r.next + 1, msg |-> chLog[(pos - RECV_MSG_CHAN) + 1]]
         ELSE [kind |-> "lagged", next |-> oldest, msg |-> NoMessage]

\* One round of a subscriber's loop, `while let Ok(msg) = recv().await` inside
\* `loop`, with res what recv returned: a message is taken; Err(Lagged) ends
\* the inner loop and the outer loop calls recv again.
Receive(s, res) ==
    /\ res.kind # "empty"
    /\ subs' = [subs EXCEPT ![s] =
                    IF res.kind = "ok"
                    THEN [@ EXCEPT !.next = res.next, !.got = Append(@, res.msg)]
                    ELSE [@ EXCEPT !.next = res.next, !.lagged = @ + 1]]

SubscriberRecv(s) ==
    /\ subs[s].state = "open"
    /\ Receive(s, broadcast_recv(subs[s]))
    /\ UNCHANGED <<supVars, codecVars, outVars, wirePos, chConn, chLog>>

ChanNext ==
    \/ ChanReadTask
    \/ \E s \in Subscribers : Subscribe(s)
    \/ \E s \in Subscribers : SubscriberRecv(s)

ChanSpec == ChanInit /\ [][ChanNext]_vars

\* The messages of the lines that have arrived on the wire in full, each line
\* decoded on its own, in the order of the lines.
RECURSIVE DecodedLines(_)
DecodedLines(n) ==
    IF n = 0 THEN <<>> ELSE DecodedLines(n - 1) \o process_buf(WireLine(n)).res
Decoded == [n \in 0..MaxLines |-> DecodedLines(n)]
Arrived == Decoded[Cardinality({n \in 1..MaxLines : LineEnds[n] <= wirePos})]

\* a is b with some elements left out.
RECURSIVE IsSubsequence(_, _)
IsSubsequence(a, b) ==
    IF a = <<>> THEN TRUE
    ELSE IF b = <<>> THEN FALSE
    ELSE IF Head(a) = Head(b) THEN IsSubsequence(Tail(a), Tail(b))
    ELSE IsSubsequence(a, Tail(b))

NoDuplicates(a) == \A j, k \in 1..Len(a) : a[j] = a[k] => j = k

\* C10: what the channel has accepted is what arrived on the wire, in that
\* order; what a subscriber has received is part of it, in the same order and
\* without repetition; a subscriber that was never told that it lagged has
\* received exactly the messages accepted since it subscribed, up to the one
\* it takes next.
C10_WireOrderNoDuplicates ==
    /\ chConn.read = "running" => chLog = Arrived
    /\ IsSubsequence(chLog, Arrived)
    /\ \A s \in Subscribers :
        /\ IsSubsequence(subs[s].got, Arrived)
        /\ NoDuplicates(subs[s].got)
        /\ subs[s].lagged = 0 =>
              subs[s].got = SubSeq(chLog, subs[s].start + 1, subs[s].next)

\* A subscriber that lagged and went on receiving, and one that subscribed
\* after the first messages, never lagged and has received messages.
C10_Witness ==
    /\ \E s \in Subscribers : subs[s].lagged > 0 /\ Len(subs[s].got) >= 2
    /\ \E s \in Subscribers : subs[s].lagged = 0 /\ subs[s].start > 0 /\ Len(subs[s].got) >= 2

\* Where message m stands in what the channel has accepted.
Position(m) == CHOOSE k \in 1..Len(chLog) : chLog[k] = m

\* The receiver was moved forward by an overflow and has received nothing
\* since.
JustLagged(r) ==
    /\ r.lagged > 0
    /\ r.got = <<>> \/ r.got[Len(r.got)] # chLog[r.next]

\* C11: a subscriber more than RECV_MSG_CHAN messages behind is told so by
\* its next recv, which moves it to the oldest message the channel keeps; a
\* recv that succeeds returns the message at the subscriber's position, never
\* another one, and right after an overflow that is the oldest message kept;
\* what a subscriber has received is in the channel's order, without
\* repetition.
C11_OverflowIsSignalled ==
    \A s \in Subscribers :
        subs[s].state = "open" =>
            LET r == subs[s]
                res == broadcast_recv(r)
            IN  /\ Len(chLog) > r.next + RECV_MSG_CHAN =>
                      /\ res.kind = "lagged"
                      /\ res.next + RECV_MSG_CHAN = Len(chLog)
                /\ res.kind = "lagged" => Len(chLog) > r.next + RECV_MSG_CHAN
                /\ res.kind = "ok" =>
                      /\ res.msg = chLog[r.next + 1]
                      /\ JustLagged(r) => r.next + RECV_MSG_CHAN = Len(chLog)
                /\ \A j \in 1..Len(r.got) :
                      /\ \E k \in 1..Len(chLog) : chLog[k] = r.got[j]
                      /\ j > 1 => Position(r.got[j - 1]) < Position(r.got[j])

\* A subscriber that received a message, then overflowed, and has since
\* received the oldest message kept and the one after it.
C11_Witness ==
    \E s \in Subscribers :
        /\ subs[s].lagged > 0
        /\ \E j \in 1..Len(subs[s].got) :
            /\ j + 2 <= Len(subs[s].got)
            /\ Position(subs[s].got[j + 1]) > Position(subs[s].got[j]) + 1
            /\ Position(subs[s].got[j + 2]) = Position(subs[s].got[j + 1]) + 1

\* ------------------------------------------------------------------------
\* irc.rs: the encoder and the client handle's operations
\* ------------------------------------------------------------------------

SEND_MSG_CHAN == 16

\* A command table that writes the two replies by their numbers.
CommandToString_WithReplies(cmd) ==
    CASE cmd.tag = "Join" -> [ok |-> TRUE, text |-> <<"J", "O", "I", "N">>]
      [] cmd.tag = "Nick" -> [ok |-> TRUE, text |-> <<"N", "I", "C", "K">>]
      [] cmd.tag = "Notice" -> [ok |-> TRUE, text |-> <<"N", "O", "T", "I", "C", "E">>]
      [] cmd.tag = "Ping" -> [ok |-> TRUE, text |-> <<"P", "O", "N", "G">>]
      [] cmd.tag = "Privmsg" -> [ok |-> TRUE, text |-> <<"P", "R", "I", "V", "M", "S", "G">>]
      [] cmd.tag = "RplWelcome" -> [ok |-> TRUE, text |-> <<"0", "0", "1">>]
      [] cmd.tag = "ErrNicknameInUse" -> [ok |-> TRUE, text |-> <<"4", "3", "3">>]
      [] OTHER -> [ok |-> TRUE, text |-> cmd.val]

\* impl TryFrom<&Command> for String.
CommandToString(cmd) ==
    CASE cmd.tag = "Join" -> [ok |-> TRUE, text |-> <<"J", "O", "I", "N">>]
      [] cmd.tag = "Nick" -> [ok |-> TRUE, text |-> <<"N", "I", "C", "K">>]
      [] cmd.tag = "Notice" -> [ok |-> TRUE, text |-> <<"N", "O", "T", "I", "C", "E">>]
      [] cmd.tag = "Ping" -> [ok |-> TRUE, text |-> <<"P", "O", "N", "G">>]
      [] cmd.tag = "Privmsg" -> [ok |-> TRUE, text |-> <<"P", "R", "I", "V", "M", "S", "G">>]
      [] cmd.tag = "Other" -> [ok |-> TRUE, text |-> cmd.val]
      [] OTHER -> [ok |-> FALSE, text |-> <<>>]

Contains(text, ch) == \E k \in 1..Len(text) : text[k] = ch

\* An encoder that puts the colon before the last parameter only when that
\* parameter needs it (it is empty, holds a space or starts with a colon).
RECURSIVE EncodeParameters_ColonWhenNeeded(_)
EncodeParameters_ColonWhenNeeded(parameters) ==
    IF parameters = <<>> THEN <<>>
    ELSE <<SP>>
         \o (IF Len(parameters) = 1
                /\ (Head(parameters) = <<>> \/ Contains(Head(parameters), SP)
                    \/ Head(parameters)[1] = COLON)
             THEN <<COLON>> ELSE <<>>)
         \o Head(parameters) \o EncodeParameters_ColonWhenNeeded(Tail(parameters))

\* The parameters as send_message writes them: each after a space, the last
\* one after a colon.
RECURSIVE EncodeParameters(_)
EncodeParameters(parameters) ==
    IF parameters = <<>> THEN <<>>
    ELSE <<SP>> \o (IF Len(parameters) = 1 THEN <<COLON>> ELSE <<>>)
         \o Head(parameters) \o EncodeParameters(Tail(parameters))

\* send_message: the bytes written to the BufWriter and flushed; not ok, and
\* nothing written, when the command cannot be sent.
send_message(msg) ==
    LET cmd == CommandToString(msg.command) IN
    IF ~cmd.ok THEN [ok |-> FALSE, bytes |-> <<>>]
    ELSE [ok |-> TRUE,
          bytes |-> cmd.text
                    \o (IF msg.target = None THEN <<>>
                        ELSE <<SP>>
                             \o (IF msg.parameters = <<>> /\ Contains(msg.target[1], SP)
                                 THEN <<COLON>> ELSE <<>>)
                             \o msg.target[1])
                    \o EncodeParameters(msg.parameters)
                    \o <<CR, LF>>]

\* Message::single_argument, Message::double_argument and the constructors
\* built on them.
single_argument(cmd, arg) ==
    [source |-> None, command |-> [tag |-> cmd, val |-> <<>>],
     target |-> Some(arg), parameters |-> <<>>]
double_argument(cmd, target, arg) ==
    [source |-> None, command |-> [tag |-> cmd, val |-> <<>>],
     target |-> Some(target), parameters |-> <<arg>>]
Message_nick(new_nick) == single_argument("Nick", new_nick)
Message_join(channel) == single_argument("Join", channel)
Message_privmsg(target, message) == double_argument("Privmsg", target, message)

\* The operations of IRC: the messages the call sends, in order, or a panic
\* before any is sent.
\* A handshake that sends the nickname before the user registration.
authenticate_NickFirst(nick, ident, real_name) ==
    [panic |-> FALSE,
     msgs |-> << Message_nick(nick),
                 [source |-> None,
                  command |-> [tag |-> "Other", val |-> <<"U", "S", "E", "R">>],
                  target |-> None,
                  parameters |-> <<ident, <<"0">>, <<"*">>, real_name>>] >>]

authenticate(nick, ident, real_name) ==
    [panic |-> FALSE,
     msgs |-> << [source |-> None,
                  command |-> [tag |-> "Other", val |-> <<"U", "S", "E", "R">>],
                  target |-> None,
                  parameters |-> <<ident, <<"0">>, <<"*">>, real_name>>],
                 Message_nick(nick) >>]

\* join that enqueues the channels from the last to the first.
join_Reversed(channels) ==
    [panic |-> FALSE,
     msgs |-> [k \in 1..Len(channels) |-> single_argument("Join", channels[Len(channels) + 1 - k])]]

join(channels) ==
    [panic |-> FALSE,
     msgs |-> [k \in 1..Len(channels) |-> Message_join(channels[k])]]

\* reply_pong that sends the message twice.
reply_pong_Twice(msg) == [panic |-> FALSE, msgs |-> <<msg, msg>>]

reply_pong(msg) == [panic |-> FALSE, msgs |-> <<msg>>]

\* reply_nick_in_use that builds the new nick from the target of the event.
reply_nick_in_use_FromTarget(msg) ==
    IF msg.command.tag # "ErrNicknameInUse" \/ msg.parameters = <<>>
    THEN [panic |-> TRUE, msgs |-> <<>>]
    ELSE [panic |-> FALSE, msgs |-> <<Message_nick(msg.target[1] \o <<"_">>)>>]

reply_nick_in_use(msg) ==
    IF msg.command.tag # "ErrNicknameInUse" \/ msg.parameters = <<>>
    THEN [panic |-> TRUE, msgs |-> <<>>]
    ELSE [panic |-> FALSE, msgs |-> <<Message_nick(msg.parameters[1] \o <<"_">>)>>]

\* The configuration of the bot whose connection is looked at closely.
ConfigNick == <<"n">>
ConfigIdent == <<"b", "o", "t">>
ConfigRealName == <<"b", "o", "t", "o", "n">>
ConfigChannels == [k \in 1..NumChannels |-> <<"#", ToString(k)>>]

\* The match of the control loop on the command of a received message.
ControlHandler(msg) ==
    CASE msg.command.tag = "Ping" -> reply_pong(msg)
      [] msg.command.tag = "ErrNicknameInUse" -> reply_nick_in_use(msg)
      [] msg.command.tag = "RplWelcome" -> join(ConfigChannels)
      [] OTHER -> [panic |-> FALSE, msgs |-> <<>>]

\* ------------------------------------------------------------------------
\* plugins/weather.rs: the reply to a channel message
\* ------------------------------------------------------------------------

\* Position of the first ch in text, 0 when there is none.
Find(text, ch) ==
    IF Contains(text, ch)
    THEN CHOOSE k \in 1..Len(text) : text[k] = ch /\ \A j \in 1..(k - 1) : text[j] # ch
    ELSE 0

\* Message::source_as_user: the nick, when the source reads nick!ident@host.
source_as_user(msg) ==
    IF msg.source = None THEN None
    ELSE LET src == msg.source[1]
             bang == Find(src, "!")
         IN  IF bang = 0 THEN None
             ELSE IF Find(SubSeq(src, bang, Len(src)), "@") = 0 THEN None
             ELSE Some(SubSeq(src, 1, bang - 1))

\* split_first_word: the text before the first space and what follows it.
split_first_word(text) ==
    LET space == Find(text, SP) IN
    IF space = 0 THEN [cmd |-> text, msg |-> None]
    ELSE [cmd |-> SubSeq(text, 1, space - 1),
          msg |-> Some(SubSeq(text, space + 1, Len(text)))]

\* The task spawned for a PRIVMSG: the reply it sends, if any.  Of the
\* plugin's commands only \wset with a location is followed here; "'" stands
\* for the backquote of the reply's text.
WeatherReply(msg) ==
    IF msg.command.tag # "Privmsg" THEN None
    ELSE IF msg.target = None \/ Len(msg.parameters) # 1 THEN None
    ELSE IF source_as_user(msg) = None THEN None
    ELSE LET w == split_first_word(msg.parameters[1])
             nick == source_as_user(msg)[1]
         IN  IF w.cmd = <<"\\", "w", "s", "e", "t">> /\ w.msg # None
             THEN Some(Message_privmsg(msg.target[1],
                          nick \o <<COLON, SP, "Updated your saved weather location to ", "'">>
                               \o w.msg[1] \o <<"'">>))
             ELSE None

\* ------------------------------------------------------------------------
\* One connection with its outbound queue, control loop and weather plugin
\* ------------------------------------------------------------------------

\* A read of the socket that returns the next line, or the next two, of the
\* first OutLines lines.
LineReads(p) ==
    {[kind |-> "data", bytes |-> SubSeq(Wire, p + 1, q)] :
        q \in {r \in {LineEnd(p), LineEnd(LineEnd(p))} : p < r /\ r <= LineEnds[OutLines]}}

\* The connection is up, the plugin holds its clone of the handle, the
\* control loop has been spawned and is about to authenticate.
OutInit ==
    /\ SupInit /\ bots = DistinctHosts /\ plugins = WithKey
    /\ wirePos = 0
    /\ chConn = Connection_spawn_tasks
    /\ chLog = <<>>
    /\ subs = [s \in Subscribers |-> [NoReceiver EXCEPT !.state = "open"]]
    /\ outQ = <<>>
    /\ outLog = <<>>
    /\ sock = <<>>
    /\ ctlTask = [pc |-> "auth",
                  todo |-> authenticate(ConfigNick, ConfigIdent, ConfigRealName).msgs]
    /\ replies = {}
    /\ CodecIdle

OutReadTask ==
    /\ ReadTaskReads(LineReads(wirePos))
    /\ UNCHANGED <<supVars, codecVars, outVars, subs>>

\* A queue that goes on accepting messages after its Receiver is gone.
mpsc_send_IgnoringClosed ==
    IF Len(outQ) >= SEND_MSG_CHAN THEN "full" ELSE "ok"

\* mpsc::Sender::send of msg by sender from: "closed" when the write task and
\* with it the Receiver is gone, "full" (the call waits) when the queue holds
\* SEND_MSG_CHAN messages.
mpsc_send ==
    IF chConn.write # "running" THEN "closed"
    ELSE IF Len(outQ) >= SEND_MSG_CHAN THEN "full"
    ELSE "ok"

\* The senders: the handle of the control loop, and the clone each task of the
\* weather plugin holds.
ControlSender == <<"control", 0>>
WeatherSender(task) == <<"weather", task>>

Enqueue(from, msg) ==
    /\ outQ' = Append(outQ, [from |-> from, msg |-> msg])
    /\ outLog' = Append(outLog, [from |-> from, msg |-> msg])

\* The control loop enqueues the next message of the call it is in
\* (authenticate, reply_pong, reply_nick_in_use, join); an error of send ends
\* the task through `?`.
ControlSend ==
    /\ ctlTask.pc \in {"auth", "loop"}
    /\ ctlTask.todo # <<>>
    /\ mpsc_send # "full"
    /\ IF mpsc_send = "closed"
       THEN /\ ctlTask' = [pc |-> "err", todo |-> <<>>]
            /\ UNCHANGED <<outQ, outLog>>
       ELSE /\ Enqueue(ControlSender, Head(ctlTask.todo))
            /\ ctlTask' = [pc |-> IF ctlTask.pc = "auth" /\ Len(ctlTask.todo) > 1
                                  THEN "auth" ELSE "loop",
                           todo |-> Tail(ctlTask.todo)]
    /\ UNCHANGED <<supVars, codecVars, chanVars, sock, replies>>

\* The control loop takes the next event of its subscription and matches on
\* it; the call it makes enqueues its messages in later steps.  A failed
\* assertion in reply_nick_in_use panics the task.
ControlRecv ==
    /\ ctlTask.pc = "loop"
    /\ ctlTask.todo = <<>>
    /\ LET res == broadcast_recv(subs["control"]) IN
        /\ Receive("control", res)
        /\ ctlTask' = IF res.kind # "ok" THEN ctlTask
                      ELSE IF ControlHandler(res.msg).panic
                      THEN [pc |-> "panicked", todo |-> <<>>]
                      ELSE [pc |-> "loop", todo |-> ControlHandler(res.msg).msgs]
    /\ UNCHANGED <<supVars, codecVars, wirePos, chConn, chLog, outQ, outLog, sock, replies>>

\* The weather plugin takes the next event of its subscription; for a PRIVMSG
\* it spawns a task, which may have a reply to send.
PluginRecv ==
    /\ LET res == broadcast_recv(subs["plugin"]) IN
        /\ Receive("plugin", res)
        /\ replies' = IF res.kind = "ok" /\ WeatherReply(res.msg) # None
                      THEN replies \cup {[task |-> Len(subs["plugin"].got) + 1,
                                          msg |-> WeatherReply(res.msg)[1]]}
                      ELSE replies
    /\ UNCHANGED <<supVars, codecVars, wirePos, chConn, chLog, outQ, outLog, sock, ctlTask>>

\* A task of the weather plugin sends its reply and ends; an error of send
\* panics it (unwrap).
ReplySend(r) ==
    /\ r \in replies
    /\ mpsc_send # "full"
    /\ IF mpsc_send = "closed" THEN UNCHANGED <<outQ, outLog>>
       ELSE Enqueue(WeatherSender(r.task), r.msg)
    /\ replies' = replies \ {r}
    /\ UNCHANGED <<supVars, codecVars, chanVars, sock, ctlTask>>

\* A queue that hands out its newest message first.
mpsc_recv_Newest(q) ==
    [entry |-> q[Len(q)], rest |-> SubSeq(q, 1, Len(q) - 1)]

\* mpsc::Receiver::recv on a queue that holds something: the oldest entry.
mpsc_recv(q) == [entry |-> Head(q), rest |-> Tail(q)]

\* What a write to the socket may do: take everything, fail, fail after the
\* first byte.
SocketWrites == {"ok", "err", "partial"}

\* The write task takes the oldest message of the queue, encodes it and
\* flushes it to the socket; an error of send_message panics the task
\* (unwrap), and the Receiver is dropped with what the queue holds.
OutWriteTask ==
    /\ chConn.write = "running"
    /\ outQ # <<>>
    /\ \E io \in SocketWrites :
        LET e == send_message(mpsc_recv(outQ).entry.msg) IN
        IF e.ok /\ io = "ok"
        THEN /\ sock' = Append(sock, e.bytes)
             /\ outQ' = mpsc_recv(outQ).rest
             /\ chConn' = chConn
        ELSE /\ sock' = IF e.ok /\ io = "partial"
                        THEN Append(sock, SubSeq(e.bytes, 1, 1)) ELSE sock
             /\ outQ' = <<>>
             /\ chConn' = [chConn EXCEPT !.write = "panicked"]
    /\ UNCHANGED <<supVars, codecVars, wirePos, chLog, subs, outLog, ctlTask, replies>>

OutNext ==
    \/ OutReadTask
    \/ ControlSend
    \/ ControlRecv
    \/ PluginRecv
    \/ \E r \in replies : ReplySend(r)
    \/ OutWriteTask

OutSpec == OutInit /\ [][OutNext]_vars

\* The control loop is inside a call and waits for room in the outbound
\* queue.
ControlBlocked == ctlTask.todo # <<>> /\ mpsc_send = "full"

\* C12: whatever the subscribers have or have not taken, and also while the
\* control loop waits for room in the outbound queue, the read task can
\* publish the next lines of the server, and every subscriber that calls
\* recv and has not seen everything gets an answer at once.
C12_StalledSubscriberBlocksNobody ==
    /\ chConn.read = "running" /\ wirePos < LineEnds[OutLines] =>
          CanPublish(LineReads(wirePos))
    /\ subs["plugin"].next < Len(chLog) =>
          /\ broadcast_recv(subs["plugin"]).kind # "empty"
          /\ ENABLED PluginRecv
    /\ subs["control"].next < Len(chLog) =>
          /\ broadcast_recv(subs["control"]).kind # "empty"
          /\ ctlTask.pc = "loop" /\ ctlTask.todo = <<>> => ENABLED ControlRecv

\* The control loop waits for room in the outbound queue; meanwhile the read
\* task has published all the server sent and the plugin has received more
\* than the control loop.
C12_Witness ==
    /\ ControlBlocked
    /\ wirePos = LineEnds[OutLines]
    /\ Len(subs["plugin"].got) > Len(subs["control"].got)

\* The messages of the entries of log that sender from enqueued, in order.
RECURSIVE SentBy(_, _)
SentBy(log, from) ==
    IF log = <<>> THEN <<>>
    ELSE (IF Head(log).from = from THEN <<Head(log).msg>> ELSE <<>>)
         \o SentBy(Tail(log), from)

\* What the control loop's program order makes it send: the messages of
\* authenticate, then those of the call made for each event it has taken.
RECURSIVE HandlerMessages(_)
HandlerMessages(events) ==
    IF events = <<>> THEN <<>>
    ELSE ControlHandler(Head(events)).msgs \o HandlerMessages(Tail(events))
ControlProgram ==
    authenticate(ConfigNick, ConfigIdent, ConfigRealName).msgs
    \o HandlerMessages(subs["control"].got)

IsPrefix(a, b) == Len(a) <= Len(b) /\ a = SubSeq(b, 1, Len(a))

\* C13: while the write task is alive, the socket holds, flush by flush and
\* in the order of acceptance, the whole encoding of each message the queue
\* accepted and no longer holds, each once; the queue holds the others, at
\* most SEND_MSG_CHAN of them; the control loop's messages were accepted in
\* the order its program sends them, none left out, and a reply of the
\* weather plugin is accepted at most once.
C13_WrittenOnceWholeInOrder ==
    chConn.write = "running" =>
        /\ Len(outQ) <= SEND_MSG_CHAN
        /\ Len(sock) + Len(outQ) = Len(outLog)
        /\ outQ = SubSeq(outLog, Len(sock) + 1, Len(outLog))
        /\ \A k \in 1..Len(sock) :
              /\ send_message(outLog[k].msg).ok
              /\ sock[k] = send_message(outLog[k].msg).bytes
        /\ IsPrefix(SentBy(outLog, ControlSender), ControlProgram)
        /\ ctlTask.pc \in {"auth", "loop"} =>
              SentBy(outLog, ControlSender) \o ctlTask.todo = ControlProgram
        /\ \A j, k \in 1..Len(outLog) :
              outLog[j].from = outLog[k].from /\ outLog[j].from # ControlSender => j = k
        /\ \A r \in replies : \A k \in 1..Len(outLog) : outLog[k].from # WeatherSender(r.task)

\* The write task has written messages, the queue is full, and the plugin's
\* reply was accepted between two messages of the control loop.
C13_Witness ==
    /\ chConn.write = "running"
    /\ Len(sock) >= 2
    /\ Len(outQ) = SEND_MSG_CHAN
    /\ \E j \in 1..Len(outLog) :
          /\ outLog[j].from # ControlSender
          /\ j < Len(outLog)

IsPing(msg) == msg.command.tag = "Ping"

\* The Ping messages of a sequence of messages, in order.
Pings(msgs) == SelectSeq(msgs, IsPing)

\* The line of a flush, without its CR LF.
Line(bytes) == SubSeq(bytes, 1, Len(bytes) - 2)

\* The k-th flush on the socket is a whole message (the last flush of a
\* write task that failed may be cut short).
WholeFlush(k) == k < Len(sock) \/ chConn.write = "running"

\* The control loop takes an event in this step.
ControlTakes ==
    Len(subs'["control"].got) = Len(subs["control"].got) + 1

\* C14: the Pings the control loop has enqueued or is about to enqueue are the
\* Pings it has received, each once and in the order received (one may be
\* missing at the end when the queue was closed); such a message is written as
\* a PONG line with the target and the parameters of the Ping.  The control
\* loop takes an event only when the call for the event before has enqueued
\* all its messages, and taking a Ping changes nothing but its own position
\* and the message it is about to enqueue.
C14_PongPerPing ==
    /\ [](/\ IsPrefix(Pings(SentBy(outLog, ControlSender) \o ctlTask.todo),
                      Pings(subs["control"].got))
          /\ ctlTask.pc \in {"auth", "loop"} =>
                Pings(SentBy(outLog, ControlSender) \o ctlTask.todo)
                    = Pings(subs["control"].got)
          /\ \A k \in 1..Len(sock) :
                WholeFlush(k) /\ outLog[k].from = ControlSender /\ IsPing(outLog[k].msg) =>
                    LET p == parse_line(Line(sock[k])) IN
                    /\ SubSeq(sock[k], 1, 5) = <<"P", "O", "N", "G", SP>>
                    /\ p.status = "ok"
                    /\ p.msg.target = outLog[k].msg.target
                    /\ p.msg.parameters = outLog[k].msg.parameters)
    /\ [][ControlTakes =>
            /\ ctlTask.todo = <<>>
            /\ LET ev == subs'["control"].got[Len(subs'["control"].got)] IN
               IsPing(ev) =>
                  /\ ctlTask' = [pc |-> "loop", todo |-> <<ev>>]
                  /\ UNCHANGED <<supVars, codecVars, wirePos, chConn, chLog, outQ, outLog, sock, replies>>
                  /\ subs'["plugin"] = subs["plugin"]]_vars

\* Two Pings were received and the socket holds the PONG for each, in the
\* order of the Pings.
C14_Witness ==
    /\ Len(Pings(subs["control"].got)) >= 2
    /\ \E j, k \in 1..Len(sock) :
          /\ j < k
          /\ outLog[j].msg = Pings(subs["control"].got)[1]
          /\ outLog[k].msg = Pings(subs["control"].got)[2]
          /\ SubSeq(sock[k], 1, 4) = <<"P", "O", "N", "G">>

IsJoin(msg) == msg.command.tag = "Join"
IsNick(msg) == msg.command.tag = "Nick"
IsWelcome(msg) == msg.command.tag = "RplWelcome"

\* A NicknameInUse event that names the rejected nick after its target.
IsNickInUse(msg) == msg.command.tag = "ErrNicknameInUse" /\ msg.parameters # <<>>

\* The JOINs for the configured channels, in configured order, n times over.
RECURSIVE ConfiguredJoins(_)
ConfiguredJoins(n) ==
    IF n = 0 THEN <<>>
    ELSE [k \in 1..Len(ConfigChannels) |->
             [source |-> None, command |-> [tag |-> "Join", val |-> <<>>],
              target |-> Some(ConfigChannels[k]), parameters |-> <<>>]]
         \o ConfiguredJoins(n - 1)

\* C15: as long as no send has failed, what the control loop has enqueued or
\* is about to enqueue holds, besides USER and the first NICK, one JOIN per
\* configured channel in configured order for each Welcome received, one NICK
\* and no JOIN for each NicknameInUse received that names the rejected nick,
\* one message for each Ping, and nothing else; so no JOIN is there before a
\* Welcome was received, and a Welcome after a NicknameInUse has its JOINs.
C15_HandshakeReplies ==
    LET sent == SentBy(outLog, ControlSender) \o ctlTask.todo
        got == subs["control"].got
    IN  /\ IsPrefix(SelectSeq(SentBy(outLog, ControlSender), IsJoin),
                    ConfiguredJoins(Len(SelectSeq(got, IsWelcome))))
        /\ ctlTask.pc # "err" =>
            /\ SelectSeq(sent, IsJoin) = ConfiguredJoins(Len(SelectSeq(got, IsWelcome)))
            /\ Len(SelectSeq(sent, IsNick)) = 1 + Len(SelectSeq(got, IsNickInUse))
            /\ Len(sent) = 2 + Len(SelectSeq(got, IsNickInUse)) + Len(Pings(got))
                             + Len(ConfigChannels) * Len(SelectSeq(got, IsWelcome))
        /\ (\E k \in 1..Len(sent) : IsJoin(sent[k])) => \E k \in 1..Len(got) : IsWelcome(got[k])
        /\ \A k \in 1..Len(got) :
              IsNickInUse(got[k]) /\ (k < Len(got) \/ ctlTask.pc # "err") =>
                  \E j \in 1..Len(sent) :
                      /\ sent[j] = [source |-> None, command |-> [tag |-> "Nick", val |-> <<>>],
                                    target |-> Some(got[k].parameters[1] \o <<"_">>),
                                    parameters |-> <<>>]
                      /\ \A i \in 1..j : ~IsJoin(sent[i])

\* A NicknameInUse and then a Welcome were received, and the queue has
\* accepted the NICK and after it the JOINs of all configured channels; a
\* NOTICE received before caused nothing.
C15_Witness ==
    LET sent == SentBy(outLog, ControlSender)
        got == subs["control"].got
    IN  /\ Len(got) >= 3
        /\ got[1].command.tag = "Notice"
        /\ IsNickInUse(got[2])
        /\ IsWelcome(got[3])
        /\ Len(SelectSeq(sent, IsJoin)) = NumChannels
        /\ Len(SelectSeq(sent, IsNick)) = 2

\* C16: the control loop, which here is neither cancelled nor loses its
\* subscription, is running: in authenticate, waiting in recv, or inside the
\* call for an event.
C16_ControlLoopKeepsRunning == ctlTask.pc \in {"auth", "loop"}

\* ------------------------------------------------------------------------
\* The decoder on its own: lines and buffers handed to it
\* ------------------------------------------------------------------------

\* The pieces lines are put together from.
Sources == {None, Some(<<"n", "i", "c", "k", "!", "i", "d", "e", "n", "t", "@", "h", "o", "s", "t">>), Some(<<"i", "r", "c", ".", "s">>)}
Verbs ==
    {[text |-> <<"P", "I", "N", "G">>, tag |-> "Ping"],
     [text |-> <<"N", "O", "T", "I", "C", "E">>, tag |-> "Notice"],
     [text |-> <<"P", "R", "I", "V", "M", "S", "G">>, tag |-> "Privmsg"],
     [text |-> <<"0", "0", "1">>, tag |-> "RplWelcome"],
     [text |-> <<"4", "3", "3">>, tag |-> "ErrNicknameInUse"],
     [text |-> <<"J", "O", "I", "N">>, tag |-> "Other"],
     [text |-> <<"p", "i", "n", "g">>, tag |-> "Other"]}
Middles == {<<>>, <<<<"#", "c", "h", "a", "n">>>>, <<<<"#", "c", "h", "a", "n">>, <<"x">>>>}
Trailings == {None, Some(<<"h", "e", "l", "l", "o", SP, "w", "o", "r", "l", "d">>), Some(<<"s", "e", "r", "v", "e", "r", ".", "e", "x", "a", "m", "p", "l", "e">>), Some(<<>>)}
Gaps == {1, 2}

Parts ==
    [source : Sources, verb : Verbs, middles : Middles, trailing : Trailings,
     gap : Gaps, pad : BOOLEAN]

Spaces(n) == [k \in 1..n |-> SP]

RECURSIVE JoinMiddles(_, _)
JoinMiddles(middles, gap) ==
    IF middles = <<>> THEN <<>>
    ELSE Spaces(gap) \o Head(middles) \o JoinMiddles(Tail(middles), gap)

\* The line [:source ]VERB p1 p2 ... [:trailing] made of parts, with gap
\* spaces between its tokens and, when it has no trailing parameter and pad
\* is set, a space at its end.
AssembleLine(parts) ==
    (IF parts.source = None THEN <<>>
     ELSE <<COLON>> \o parts.source[1] \o Spaces(parts.gap))
    \o parts.verb.text
    \o JoinMiddles(parts.middles, parts.gap)
    \o (IF parts.trailing = None
        THEN (IF parts.pad THEN <<SP>> ELSE <<>>)
        ELSE Spaces(parts.gap) \o <<COLON>> \o parts.trailing[1])

\* Lines that are not of that form: the empty line, a bare prefix, a prefix
\* followed by spaces only, a space only, a line that starts with a space.
BadLines ==
    {<<>>, <<COLON, "i", "r", "c", ".", "s">>, <<COLON, "i", "r", "c", ".", "s", SP, SP>>, <<SP>>, <<SP, "P", "I", "N", "G", SP, COLON, "x">>}

\* Two lines of that form and the messages they stand for.
GoodLine1 == <<"P", "I", "N", "G", SP, COLON, "b", "e", "f", "o", "r", "e">>
GoodLine2 == <<COLON, "i", "r", "c", ".", "s", SP, "N", "O", "T", "I", "C", "E", SP, "*", SP, COLON, "a", "f", "t", "e", "r">>
GoodMessage1 ==
    [source |-> None, command |-> [tag |-> "Ping", val |-> <<>>],
     target |-> Some(<<"b", "e", "f", "o", "r", "e">>), parameters |-> <<>>]
GoodMessage2 ==
    [source |-> Some(<<"i", "r", "c", ".", "s">>), command |-> [tag |-> "Notice", val |-> <<>>],
     target |-> Some(<<"*">>), parameters |-> <<<<"a", "f", "t", "e", "r">>>>]

CRLF == <<CR, LF>>

\* What one read of the socket puts after an empty buffer: a good line, the
\* line under test, a second good line.
Sandwich(line) == GoodLine1 \o CRLF \o line \o CRLF \o GoodLine2 \o CRLF

\* The decoder is handed a line, or the read task a buffer with a line in it.
CodecInit ==
    /\ SupInit /\ bots = DistinctHosts /\ plugins = WithKey
    /\ ChanIdle
    /\ OutIdle
    /\ codecIn \in {[op |-> op, parts |-> parts, arg |-> AssembleLine(parts)] :
                       op \in {"parse_line", "receive"}, parts \in Parts}
                   \cup {[op |-> op, parts |-> NoParts, arg |-> line] :
                       op \in {"parse_line", "receive"}, line \in BadLines}
    /\ codecOut = NoResult

\* parse_line is called on the line.
DecodeLine ==
    /\ codecIn.op = "parse_line"
    /\ codecOut = NoResult
    /\ codecOut' = [op |-> "parse_line", res |-> parse_line(codecIn.arg)]
    /\ UNCHANGED <<supVars, chanVars, outVars, codecIn>>

\* The read task of a fresh connection with one subscriber gets the line,
\* between two others, in one read.
ReceiveBuffer ==
    /\ codecIn.op = "receive"
    /\ codecOut = NoResult
    /\ LET input == [kind |-> "data", bytes |-> Sandwich(codecIn.arg)] IN
       codecOut' = [op |-> "receive",
                    conn |-> receive_messages(Connection_spawn_tasks, input, 1),
                    sent |-> receive_messages_sent(Connection_spawn_tasks, input, 1)]
    /\ UNCHANGED <<supVars, chanVars, outVars, codecIn>>

CodecNext == DecodeLine \/ ReceiveBuffer

CodecSpec == CodecInit /\ [][CodecNext]_vars

\* The parameters of a line made of parts, the trailing one last.
AllParams(parts) ==
    parts.middles \o (IF parts.trailing = None THEN <<>> ELSE <<parts.trailing[1]>>)

Decoded1 == codecOut.op = "parse_line" /\ codecIn.parts # NoParts
Received1 == codecOut.op = "receive"

\* C17: a line [:source ]VERB p1 p2 ... [:trailing] with at least one
\* parameter decodes to the Message whose source is the prefix without its
\* colon (None without prefix), whose command is the verb's entry in the
\* table or Other(verb), whose target is the first parameter and whose
\* parameters are the later ones in order, the trailing one whole and without
\* its colon; the number of spaces between tokens makes no difference.
C17_DecodesLine ==
    Decoded1 /\ AllParams(codecIn.parts) # <<>> =>
        /\ codecOut.res.status = "ok"
        /\ codecOut.res.msg.source = codecIn.parts.source
        /\ codecOut.res.msg.command =
              (IF codecIn.parts.verb.tag = "Other"
               THEN [tag |-> "Other", val |-> codecIn.parts.verb.text]
               ELSE [tag |-> codecIn.parts.verb.tag, val |-> <<>>])
        /\ codecOut.res.msg.target = Some(AllParams(codecIn.parts)[1])
        /\ codecOut.res.msg.parameters = Tail(AllParams(codecIn.parts))

\* ":nick!ident@host PRIVMSG #chan :hello world" has been decoded to source
\* nick!ident@host, Privmsg, target #chan, parameters ["hello world"].
C17_Witness ==
    /\ codecIn.arg = <<COLON, "n", "i", "c", "k", "!", "i", "d", "e", "n", "t", "@", "h", "o", "s", "t", SP, "P", "R", "I", "V", "M", "S", "G", SP, "#", "c", "h", "a", "n", SP, COLON, "h", "e", "l", "l", "o", SP, "w", "o", "r", "l", "d">>
    /\ codecOut.op = "parse_line"
    /\ codecOut.res.msg =
          [source |-> Some(<<"n", "i", "c", "k", "!", "i", "d", "e", "n", "t", "@", "h", "o", "s", "t">>),
           command |-> [tag |-> "Privmsg", val |-> <<>>],
           target |-> Some(<<"#", "c", "h", "a", "n">>),
           parameters |-> <<<<"h", "e", "l", "l", "o", SP, "w", "o", "r", "l", "d">>>>]

\* C18 as stated: a line whose only parameter is a trailing one decodes to a
\* Message without target whose parameters hold the trailing text.
C18_TrailingOnlyHasNoTarget ==
    Decoded1 /\ codecIn.parts.middles = <<>> /\ codecIn.parts.trailing # None =>
        /\ codecOut.res.status = "ok"
        /\ codecOut.res.msg.target = None
        /\ codecOut.res.msg.parameters = <<codecIn.parts.trailing[1]>>

\* C18, as the code has it: a line whose only parameter is a trailing one
\* decodes to a Message whose target is the trailing text and whose parameter
\* list is empty; "PING :server.example" gives Ping, target server.example,
\* no parameters.
C18_TrailingOnlyIsTarget ==
    /\ Decoded1 /\ codecIn.parts.middles = <<>> /\ codecIn.parts.trailing # None =>
          /\ codecOut.res.status = "ok"
          /\ codecOut.res.msg.target = Some(codecIn.parts.trailing[1])
          /\ codecOut.res.msg.parameters = <<>>
    /\ Decoded1 /\ codecIn.arg = <<"P", "I", "N", "G", SP, COLON, "s", "e", "r", "v", "e", "r", ".", "e", "x", "a", "m", "p", "l", "e">> =>
          codecOut.res.msg =
              [source |-> None, command |-> [tag |-> "Ping", val |-> <<>>],
               target |-> Some(<<"s", "e", "r", "v", "e", "r", ".", "e", "x", "a", "m", "p", "l", "e">>), parameters |-> <<>>]

\* "PING :server.example" has been decoded.
C18_Witness ==
    /\ codecIn.arg = <<"P", "I", "N", "G", SP, COLON, "s", "e", "r", "v", "e", "r", ".", "e", "x", "a", "m", "p", "l", "e">>
    /\ codecOut.op = "parse_line"
    /\ codecOut.res.status = "ok"

\* C19: a line that is a verb only, with or without prefix and space at its
\* end, decodes to a Message without target and parameters, and a read task
\* that receives it goes on running.
C19_VerbOnlyDecodes ==
    codecIn.parts # NoParts /\ AllParams(codecIn.parts) = <<>> =>
        /\ codecOut.op = "parse_line" =>
              /\ codecOut.res.status = "ok"
              /\ codecOut.res.msg.target = None
              /\ codecOut.res.msg.parameters = <<>>
        /\ codecOut.op = "receive" => codecOut.conn.read = "running"

\* C20: a line that does not decode gives no Message; the read task that
\* receives it between two well-formed lines in one read goes on running,
\* has broadcast the Messages of those two lines in their order and nothing
\* else, and keeps nothing in its buffer.
C20_BadLineIsSkipped ==
    codecIn.parts = NoParts =>
        /\ codecOut.op = "parse_line" => codecOut.res.status = "err"
        /\ codecOut.op = "receive" =>
              /\ codecOut.conn.read = "running"
              /\ codecOut.sent = <<GoodMessage1, GoodMessage2>>
              /\ codecOut.conn.buf = <<>>

\* The read task has received a bare prefix between two well-formed lines.
C20_Witness ==
    /\ codecIn.arg = <<COLON, "i", "r", "c", ".", "s">>
    /\ codecOut.op = "receive"
    /\ Len(codecOut.sent) = 2

\* ------------------------------------------------------------------------
\* The encoder on its own: messages handed to it
\* ------------------------------------------------------------------------

\* The commands, targets and parameter lists messages are put together from.
\* In every parameter list only the last element may hold a space.
EncCommands ==
    {[tag |-> t, val |-> <<>>] :
        t \in {"Join", "Nick", "Notice", "Ping", "Privmsg", "RplWelcome", "ErrNicknameInUse"}}
    \cup {[tag |-> "Other", val |-> <<"U", "S", "E", "R">>]}
EncTargets == {None, Some(<<"#", "c", "h", "a", "n">>), Some(<<"a", SP, "b">>), Some(<<"n">>)}
EncParameters ==
    {<<>>, <<<<"h", "i", SP, "t", "h", "e", "r", "e">>>>, <<<<"x">>>>, <<<<>>>>,
     <<<<"b", "o", "t">>, <<"0">>, <<"*">>, <<"t", "h", "e", SP, "b", "o", "t", "o", "n">>>>}
EncMessages ==
    [source : {None}, command : EncCommands, target : EncTargets,
     parameters : EncParameters]

\* A command send_message can write: every variant but the two replies.
Sendable(cmd) == cmd.tag \notin {"RplWelcome", "ErrNicknameInUse"}

\* The encoder is handed a message, alone or to have its line decoded again.
EncodeInit ==
    /\ SupInit /\ bots = DistinctHosts /\ plugins = WithKey
    /\ ChanIdle
    /\ OutIdle
    /\ codecIn \in {[op |-> op, parts |-> NoParts, arg |-> msg] :
                       op \in {"send_message", "round_trip"}, msg \in EncMessages}
    /\ codecOut = NoResult

\* send_message is called on the message.
Encode ==
    /\ codecIn.op = "send_message"
    /\ codecOut = NoResult
    /\ codecOut' = [op |-> "send_message", res |-> send_message(codecIn.arg)]
    /\ UNCHANGED <<supVars, chanVars, outVars, codecIn>>

\* The line send_message wrote, without its CR LF.
WithoutCRLF(bytes) == SubSeq(bytes, 1, Len(bytes) - 2)

\* send_message is called on the message and parse_line on the line it wrote.
EncodeDecode ==
    /\ codecIn.op = "round_trip"
    /\ codecOut = NoResult
    /\ LET e == send_message(codecIn.arg) IN
       codecOut' = [op |-> "round_trip", enc |-> e,
                    res |-> IF e.ok THEN parse_line(WithoutCRLF(e.bytes))
                            ELSE [status |-> "none", msg |-> NoMessage]]
    /\ UNCHANGED <<supVars, chanVars, outVars, codecIn>>

EncodeNext == Encode \/ EncodeDecode

EncodeSpec == EncodeInit /\ [][EncodeNext]_vars

\* C21: a message with a sendable command, any target and a parameter list
\* in which only the last element may hold a space, encoded and decoded
\* again, comes back with the target and the parameters it had.
C21_RoundTrip ==
    codecOut.op = "round_trip" /\ Sendable(codecIn.arg.command) =>
        /\ codecOut.res.status = "ok"
        /\ codecOut.res.msg.target = codecIn.arg.target
        /\ codecOut.res.msg.parameters = codecIn.arg.parameters

\* The verb each sendable command is written with.
VerbText(cmd) ==
    CASE cmd.tag = "Join" -> <<"J", "O", "I", "N">>
      [] cmd.tag = "Nick" -> <<"N", "I", "C", "K">>
      [] cmd.tag = "Notice" -> <<"N", "O", "T", "I", "C", "E">>
      [] cmd.tag = "Ping" -> <<"P", "O", "N", "G">>
      [] cmd.tag = "Privmsg" -> <<"P", "R", "I", "V", "M", "S", "G">>
      [] OTHER -> cmd.val

\* The tokens of the line of a message: the verb, the target (after a colon
\* when nothing follows it and it holds a space), the parameters (the last
\* one after a colon).
WireTokens(msg) ==
    <<VerbText(msg.command)>>
    \o (IF msg.target = None THEN <<>>
        ELSE IF msg.parameters = <<>> /\ Contains(msg.target[1], SP)
        THEN <<<<COLON>> \o msg.target[1]>>
        ELSE <<msg.target[1]>>)
    \o [k \in 1..Len(msg.parameters) |->
           IF k = Len(msg.parameters) THEN <<COLON>> \o msg.parameters[k]
           ELSE msg.parameters[k]]

RECURSIVE JoinWithSpaces(_)
JoinWithSpaces(tokens) ==
    IF Len(tokens) = 1 THEN Head(tokens)
    ELSE Head(tokens) \o <<SP>> \o JoinWithSpaces(Tail(tokens))

\* C22: the line of a message with a sendable command is its tokens with one
\* space between them and CR LF at the end: the verb, the target if there is
\* one (colon-prefixed exactly when there are no parameters and it holds a
\* space), every parameter, the last and only the last colon-prefixed
\* whatever it holds.  Privmsg with target #chan and the parameter "hi there"
\* is written as "PRIVMSG #chan :hi there\r\n"; Ping is written as PONG.
C22_EncodedLine ==
    codecOut.op = "send_message" /\ Sendable(codecIn.arg.command) =>
        /\ codecOut.res.ok
        /\ codecOut.res.bytes = JoinWithSpaces(WireTokens(codecIn.arg)) \o CRLF
        /\ codecIn.arg = Message_privmsg(<<"#", "c", "h", "a", "n">>, <<"h", "i", SP, "t", "h", "e", "r", "e">>) =>
              codecOut.res.bytes = <<"P", "R", "I", "V", "M", "S", "G", SP, "#", "c", "h", "a", "n", SP, COLON, "h", "i", SP, "t", "h", "e", "r", "e", CR, LF>>
        /\ codecIn.arg.command.tag = "Ping" =>
              SubSeq(codecOut.res.bytes, 1, 4) = <<"P", "O", "N", "G">>

\* Privmsg with target #chan and the parameter "hi there" has been encoded.
C22_Witness ==
    /\ codecOut.op = "send_message"
    /\ codecIn.arg = Message_privmsg(<<"#", "c", "h", "a", "n">>, <<"h", "i", SP, "t", "h", "e", "r", "e">>)
    /\ codecOut.res.bytes = <<"P", "R", "I", "V", "M", "S", "G", SP, "#", "c", "h", "a", "n", SP, COLON, "h", "i", SP, "t", "h", "e", "r", "e", CR, LF>>

\* ------------------------------------------------------------------------
\* One connection and the holders of its handle and of a clone of it
\* ------------------------------------------------------------------------

\* The lines of Wire the server sends here.
HandleLines == 4

\* The messages a holder sends through its handle: a channel message and two
\* messages with a command that only the server sends.
HandleMessages ==
    {Message_privmsg(<<"#", "a">>, <<"h", "i">>),
     [source |-> None, command |-> [tag |-> "ErrNicknameInUse", val |-> <<>>],
      target |-> Some(<<"*">>), parameters |-> <<<<"n">>>>],
     [source |-> None, command |-> [tag |-> "RplWelcome", val |-> <<>>],
      target |-> Some(<<"n">>), parameters |-> <<>>]}

HandleSender(s) == <<s, 0>>

\* The connection is up and the handle get_channels made is held by the
\* control loop; the plugin has no clone yet; nothing has been sent.
HandleInit ==
    /\ SupInit /\ bots = DistinctHosts /\ plugins = WithKey
    /\ wirePos = 0
    /\ chConn = Connection_spawn_tasks
    /\ chLog = <<>>
    /\ subs = [s \in Subscribers |->
                 IF s = "control" THEN [NoReceiver EXCEPT !.state = "open"]
                 ELSE NoReceiver]
    /\ OutIdle
    /\ CodecIdle

\* The read task reads the next line, or the next two, of the first
\* HandleLines lines.
HandleReadTask ==
    /\ ReadTaskReads({[kind |-> "data", bytes |-> SubSeq(Wire, wirePos + 1, q)] :
                         q \in {r \in {LineEnd(wirePos), LineEnd(LineEnd(wirePos))} :
                                   wirePos < r /\ r <= LineEnds[HandleLines]}})
    /\ UNCHANGED <<supVars, codecVars, outVars, subs>>

\* The holder s of a handle calls send_messages.send(msg).await, once: the
\* message enters the queue of the connection, or the call returns Err
\* because the Receiver is gone.  codecOut keeps what the call returned.
HandleSend(s, msg) ==
    /\ subs[s].state = "open"
    /\ \A k \in 1..Len(outLog) : outLog[k].from # HandleSender(s)
    /\ mpsc_send # "full"
    /\ IF mpsc_send = "closed" THEN UNCHANGED <<outQ, outLog>>
       ELSE Enqueue(HandleSender(s), msg)
    /\ codecOut' = [op |-> "send", from |-> HandleSender(s), msg |-> msg,
                    res |-> mpsc_send]
    /\ UNCHANGED <<supVars, chanVars, codecIn, sock, ctlTask, replies>>

HandleNext ==
    \/ HandleReadTask
    \/ \E s \in Subscribers : Subscribe(s)
    \/ \E s \in Subscribers : SubscriberRecv(s)
    \/ \E s \in Subscribers, msg \in HandleMessages : HandleSend(s, msg)
    \/ OutWriteTask

HandleSpec == HandleInit /\ [][HandleNext]_vars

\* The number of entries the write task has taken from the queue.
Taken == IF chConn.write = "running" THEN Len(outLog) - Len(outQ) ELSE Len(outLog)

\* C23: send_message fails on a message whose command is RplWelcome or
\* ErrNicknameInUse and writes nothing; when the write task takes such a
\* message it ends, and the socket has received no byte of that message (nor
\* of any message behind it).
C23_ReplyOnlyIsNotWritten ==
    \A k \in 1..Len(outLog) :
        ~Sendable(outLog[k].msg.command) =>
            /\ ~send_message(outLog[k].msg).ok
            /\ send_message(outLog[k].msg).bytes = <<>>
            /\ Len(sock) < k
            /\ chConn.write = "running" => Len(outLog) - Len(outQ) < k
            /\ \A j \in 1..Len(sock) : j < k /\ Sendable(outLog[j].msg.command)

\* The write task has written a channel message and has then ended on a
\* message with the command ErrNicknameInUse.
C23_Witness ==
    /\ Len(outLog) = 2
    /\ outLog[2].msg.command.tag = "ErrNicknameInUse"
    /\ chConn.write = "panicked"
    /\ sock = <<send_message(outLog[1].msg).bytes>>

\* C24: a holder of a handle that sends a message with the command RplWelcome
\* or ErrNicknameInUse does not get success from the call.
C24_ReplyOnlySendFails ==
    codecOut.op = "send" /\ ~Sendable(codecOut.msg.command) => codecOut.res # "ok"

\* What the write task has flushed so far is, flush by flush, the lines of
\* the first entries of the log.
FlushedInOrder ==
    /\ Len(sock) <= Len(outLog)
    /\ \A k \in 1..Len(sock) :
        \/ sock[k] = send_message(outLog[k].msg).bytes
        \/ k = Len(sock) /\ chConn.write = "panicked"
            /\ sock[k] = SubSeq(send_message(outLog[k].msg).bytes, 1, 1)

\* C26: a clone of the handle receives nothing that was broadcast before it
\* was made and, as long as it is never overrun, every message broadcast
\* after it, in order; what the holder of the handle and the holder of a
\* clone send enters one queue: the write task takes the messages of both in
\* the order the sends succeeded.
C26_CloneSharesConnection ==
    /\ \A s \in Subscribers :
        subs[s].state = "open" =>
            /\ subs[s].lagged = 0
            /\ subs[s].got = SubSeq(chLog, subs[s].start + 1, subs[s].next)
            /\ subs[s].next < Len(chLog) =>
                  /\ broadcast_recv(subs[s]).kind = "ok"
                  /\ broadcast_recv(subs[s]).msg = chLog[subs[s].next + 1]
            /\ subs[s].next = Len(chLog) => broadcast_recv(subs[s]).kind = "empty"
    /\ codecOut.op = "send" /\ codecOut.res = "ok" =>
          \E k \in 1..Len(outLog) :
              outLog[k] = [from |-> codecOut.from, msg |-> codecOut.msg]
    /\ chConn.write = "running" =>
          outQ = SubSeq(outLog, Len(outLog) - Len(outQ) + 1, Len(outLog))
    /\ FlushedInOrder

\* The plugin got its clone after the first broadcast and has received every
\* message broadcast since; the control loop and the plugin have both sent,
\* the plugin first, and both messages have been written.
C26_Witness ==
    /\ subs["plugin"].start > 0
    /\ Len(subs["plugin"].got) >= 2
    /\ subs["plugin"].got = SubSeq(chLog, subs["plugin"].start + 1, Len(chLog))
    /\ Len(outLog) = 2
    /\ outLog[1].from = HandleSender("plugin")
    /\ outLog[2].from = HandleSender("control")
    /\ Len(sock) = 2
    /\ chConn.write = "running"

\* ------------------------------------------------------------------------
\* The frame decoder on its own: a byte stream handed to it in chunks
\* ------------------------------------------------------------------------

\* The lines (without CR LF) and the unfinished last lines the streams are
\* made of: a PING, an empty line, a verb alone, a line with a CR and one
\* with a LF inside; nothing, the start of a line, a line whose CR has come
\* and whose LF has not.
StreamLines ==
    {<<"P", "I", "N", "G", SP, COLON, "a">>, <<>>, <<"Q">>, <<"P", "I", "N", "G", SP, COLON, "b", CR, "c">>, <<"P", "I", "N", "G", SP, COLON, "d", LF, "e">>}
StreamTails == {<<>>, <<"P", "I">>, <<"P", "I", "N", "G", SP, COLON, "z", CR>>}

\* The streams: up to two lines, each with its CR LF, and a tail.
Streams ==
    {t : t \in StreamTails}
    \cup {l1 \o CRLF \o t : l1 \in StreamLines, t \in StreamTails}
    \cup {l1 \o CRLF \o l2 \o CRLF \o t : l1 \in StreamLines, l2 \in StreamLines, t \in StreamTails}

\* The read task's buffer and what process_buf has returned so far.
NoFeed == [op |-> "feed", fed |-> 0, buf |-> <<>>, out |-> <<>>, panic |-> FALSE]

\* read_buf appends chunk to the buffer and process_buf runs on it: its
\* messages are returned and the buffer keeps the rest, or parse_line panics
\* inside it and nothing is returned.
FeedChunk(st, chunk) ==
    LET p == process_buf(st.buf \o chunk) IN
    IF p.panic
    THEN [st EXCEPT !.fed = @ + Len(chunk), !.buf = <<>>, !.panic = TRUE]
    ELSE [st EXCEPT !.fed = @ + Len(chunk), !.buf = p.rest, !.out = @ \o p.res]

FrameInit ==
    /\ SupInit /\ bots = DistinctHosts /\ plugins = WithKey
    /\ ChanIdle
    /\ OutIdle
    /\ codecIn \in {[op |-> "feed", parts |-> NoParts, arg |-> b] : b \in Streams}
    /\ codecOut = NoFeed

\* The next n bytes of the stream arrive in one read.
Feed(n) ==
    /\ ~codecOut.panic
    /\ codecOut.fed + n <= Len(codecIn.arg)
    /\ codecOut' = FeedChunk(codecOut,
                             SubSeq(codecIn.arg, codecOut.fed + 1, codecOut.fed + n))
    /\ UNCHANGED <<supVars, chanVars, outVars, codecIn>>

FrameNext == \E n \in 1..Len(codecIn.arg) : Feed(n)

FrameSpec == FrameInit /\ [][FrameNext]_vars

\* The bytes of b behind its last CR LF (all of b when it has none).
AfterLastCRLF(b) ==
    LET ends == {k \in 1..(Len(b) - 1) : b[k] = CR /\ b[k + 1] = LF} IN
    IF ends = {} THEN b
    ELSE SubSeq(b, (CHOOSE k \in ends : \A j \in ends : j <= k) + 2, Len(b))

\* C25: however the bytes fed so far were cut into chunks, what the decoder
\* has produced is what it produces when handed the same bytes as one chunk,
\* and its buffer holds the bytes behind the last CR LF fed.
C25_ChunkingMakesNoDifference ==
    LET fed == SubSeq(codecIn.arg, 1, codecOut.fed)
        whole == FeedChunk(NoFeed, fed)
    IN  codecOut.op = "feed" /\ codecOut.fed > 0 =>
            /\ codecOut.out = whole.out
            /\ codecOut.panic = whole.panic
            /\ ~codecOut.panic => codecOut.buf = AfterLastCRLF(fed)

\* The control loop is inside a call of the handle that has messages left to
\* enqueue, and takes a step.
CallGoesOn == ctlTask.todo # <<>> /\ ctlTask' # ctlTask

\* C27: once the write task has ended and the outbound queue is closed,
\* nothing is enqueued and nothing is written to the socket any more, and the
\* call the control loop is in or makes next (authenticate, join, reply_pong,
\* reply_nick_in_use) ends with an error at its next send, its remaining
\* messages dropped: join stops at the first channel whose send fails.
C27_ClosedQueueFailsCalls ==
    [][chConn.write # "running" =>
          /\ outLog' = outLog
          /\ outQ' = outQ
          /\ sock' = sock
          /\ CallGoesOn => ctlTask' = [pc |-> "err", todo |-> <<>>]]_vars

\* join has enqueued some of the configured channels and has returned an
\* error; the write task has ended and has written none of those JOINs.
C27_Witness ==
    /\ ctlTask.pc = "err"
    /\ chConn.write = "panicked"
    /\ IsJoin(outLog[Len(outLog)].msg)
    /\ outLog[Len(outLog)].msg # Message_join(ConfigChannels[NumChannels])
    /\ \A k \in 1..Len(sock) : sock[k] # send_message(Message_join(ConfigChannels[1])).bytes

\* ------------------------------------------------------------------------
\* reply_nick_in_use on its own: a server that goes on rejecting nicks
\* ------------------------------------------------------------------------

\* How often the server rejects a nick in a row.
MaxRejections == 3

\* The 433 the server sends to a client known to it as target for the nick it
\* rejects, with or without a text after the nick.
NickInUse(target, nick, text) ==
    [source |-> Some(<<"i", "r", "c", ".", "s">>),
     command |-> [tag |-> "ErrNicknameInUse", val |-> <<>>],
     target |-> Some(target),
     parameters |-> IF text THEN <<nick, <<"N", "i", "c", "k", "n", "a", "m", "e", SP, "i", "s", SP, "a", "l", "r", "e", "a", "d", "y", SP, "i", "n", SP, "u", "s", "e", ".">>>> ELSE <<nick>>]

RejectTargets == {<<"*">>, <<"o", "l", "d">>, ConfigNick}
FirstNicks == {ConfigNick, <<"b", "o", "t", "_">>, <<"a">>, <<"N", "i", "c", "k">>}

\* Events reply_nick_in_use is not meant for: a 433 with a target only, a 433
\* with nothing, a PING, a NOTICE and a 001 with parameters.
OtherEvents ==
    {[source |-> Some(<<"i", "r", "c", ".", "s">>), command |-> [tag |-> "ErrNicknameInUse", val |-> <<>>],
      target |-> Some(<<"n">>), parameters |-> <<>>],
     [source |-> None, command |-> [tag |-> "ErrNicknameInUse", val |-> <<>>],
      target |-> None, parameters |-> <<>>],
     [source |-> None, command |-> [tag |-> "Ping", val |-> <<>>],
      target |-> Some(<<"x">>), parameters |-> <<>>],
     [source |-> Some(<<"i", "r", "c", ".", "s">>), command |-> [tag |-> "Notice", val |-> <<>>],
      target |-> Some(<<"*">>), parameters |-> <<<<"n">>>>],
     [source |-> Some(<<"i", "r", "c", ".", "s">>), command |-> [tag |-> "RplWelcome", val |-> <<>>],
      target |-> Some(<<"n">>), parameters |-> <<<<"n">>, <<"hi">>>>]}

\* The connection is up, the control loop has authenticated and holds an
\* event: the first rejection of a nick (n counts the rejections, first is
\* the nick rejected first), or an event of another kind.
NickInit ==
    /\ SupInit /\ bots = DistinctHosts /\ plugins = WithKey
    /\ wirePos = 0
    /\ chConn = Connection_spawn_tasks
    /\ chLog = <<>>
    /\ subs = [s \in Subscribers |-> NoReceiver]
    /\ outQ = <<>>
    /\ outLog = <<>>
    /\ sock = <<>>
    /\ ctlTask = [pc |-> "loop", todo |-> <<>>]
    /\ replies = {}
    /\ codecIn \in {[op |-> "reply_nick_in_use", parts |-> NoParts,
                     arg |-> NickInUse(t, nick, text), first |-> nick, n |-> 1] :
                       t \in RejectTargets, nick \in FirstNicks, text \in BOOLEAN}
                   \cup {[op |-> "reply_nick_in_use", parts |-> NoParts,
                          arg |-> e, first |-> <<>>, n |-> 1] : e \in OtherEvents}
    /\ codecOut = NoResult

\* reply_nick_in_use(event) is called: it panics at an assertion, or enqueues
\* what it sends.
NickReply ==
    /\ ctlTask.pc = "loop"
    /\ codecOut = NoResult
    /\ mpsc_send = "ok"
    /\ LET r == reply_nick_in_use(codecIn.arg) IN
        /\ codecOut' = [op |-> "reply_nick_in_use", res |-> r]
        /\ ctlTask' = IF r.panic THEN [pc |-> "panicked", todo |-> <<>>] ELSE ctlTask
        /\ outQ' = outQ \o [k \in 1..Len(r.msgs) |-> [from |-> ControlSender, msg |-> r.msgs[k]]]
        /\ outLog' = outLog \o [k \in 1..Len(r.msgs) |-> [from |-> ControlSender, msg |-> r.msgs[k]]]
    /\ UNCHANGED <<supVars, chanVars, codecIn, sock, replies>>

\* The server rejects the nick proposed last, too.
ServerRejects(t, text) ==
    /\ ctlTask.pc = "loop"
    /\ codecOut # NoResult
    /\ outLog # <<>>
    /\ codecIn.n < MaxRejections
    /\ codecIn' = [codecIn EXCEPT !.arg = NickInUse(t, outLog[Len(outLog)].msg.target[1], text),
                                  !.n = @ + 1]
    /\ codecOut' = NoResult
    /\ UNCHANGED <<supVars, chanVars, outVars>>

NickNext ==
    \/ NickReply
    \/ \E t \in RejectTargets, text \in BOOLEAN : ServerRejects(t, text)

NickSpec == NickInit /\ [][NickNext]_vars

Underscores(n) == [k \in 1..n |-> "_"]

\* C28: reply_nick_in_use on a NicknameInUse event that names the rejected
\* nick enqueues one message, NICK with that nick and one "_" behind it, so
\* that after the n-th rejection in a row the nick proposed is the first one
\* with n underscores; on an event of another command, or on a NicknameInUse
\* event without a parameter behind the target, it enqueues nothing.
C28_NickWithUnderscore ==
    /\ \A k \in 1..Len(outLog) :
          outLog[k] = [from |-> ControlSender,
                       msg |-> Message_nick(codecIn.first \o Underscores(k))]
    /\ codecOut.op = "reply_nick_in_use" =>
          IF IsNickInUse(codecIn.arg)
          THEN /\ Len(outLog) = codecIn.n
               /\ codecOut.res.msgs =
                     <<Message_nick(codecIn.arg.parameters[1] \o <<"_">>)>>
          ELSE outLog = <<>> /\ outQ = <<>> /\ codecOut.res.msgs = <<>>
    /\ codecOut = NoResult => Len(outLog) = codecIn.n - 1

\* The configured nick has been rejected three times in a row and the third
\* reply proposes it with three underscores.
C28_Witness ==
    /\ codecIn.op = "reply_nick_in_use"
    /\ codecIn.first = ConfigNick
    /\ codecOut.op = "reply_nick_in_use"
    /\ Len(outLog) = 3
    /\ outLog[3].msg = Message_nick(ConfigNick \o <<"_", "_", "_">>)

\* ------------------------------------------------------------------------
\* The supervised groups with a plugin task that can end (plugins/echo.rs)
\* ------------------------------------------------------------------------

\* The ways the task of a plugin ends by itself: a failed assertion or unwrap
\* panics it; `?` on a send returns Err once the outbound queue is closed.
PluginEnds(c) == {"panicked"} \cup (IF c.write # "running" THEN {"err"} ELSE {})

\* The plugin task of server i's group ends.  Its JoinHandle stays in the
\* map the group task holds; nobody awaits it.
PluginTaskEnds(i) ==
    /\ Running
    /\ plug[i] = "running"
    /\ \E how \in PluginEnds(conn[i]) : plug' = [plug EXCEPT ![i] = how]
    /\ UNCHANGED <<bots, plugins, main, sup, gen, entry, group, conn, ctl, zombies, failures>>
    /\ UNCHANGED <<chanVars, outVars, codecVars>>

PluginInit == Init /\ bots = DistinctHosts

PluginNext == Next \/ \E i \in Servers : PluginTaskEnds(i)

PluginSpec == PluginInit /\ [][PluginNext]_vars

Ended(task) == task \in {"err", "panicked"}

\* C29: the step in which a plugin task ends by itself changes nothing else:
\* the connection's tasks, the control loop, the group task, the other
\* groups and the supervisor are as before; and afterwards the group task
\* leaves its wait only when the connection has ended, the group is
\* restarted only after it has returned an error, and the plugin task stays
\* ended until its group is replaced.
C29_PluginFailureIsIsolated ==
    [][\A i \in Servers :
          /\ plug[i] = "running" /\ Ended(plug'[i]) =>
                /\ conn' = conn /\ ctl' = ctl /\ group' = group
                /\ gen' = gen /\ sup' = sup /\ main' = main
                /\ \A j \in Servers \ {i} : plug'[j] = plug[j]
          /\ Ended(plug[i]) /\ group[i] = "await_irc" /\ group'[i] # "await_irc" =>
                conn[i].pc \in {"ok", "err"} /\ group'[i] = conn[i].pc
          /\ Ended(plug[i]) /\ plug'[i] # plug[i] =>
                plug'[i] = "none" /\ gen'[i] = gen[i] + 1
          /\ gen'[i] # gen[i] => group[i] = "err"]_vars

\* A plugin task has panicked while the read task, the write task, the
\* control loop and the group task of its generation run, and so does the
\* plugin of the other server.
C29_Witness ==
    \E i \in Servers :
        /\ plug[i] = "panicked"
        /\ conn[i].read = "running" /\ conn[i].write = "running"
        /\ ctl[i] = "running"
        /\ group[i] = "await_irc"
        /\ \E j \in Servers \ {i} : plug[j] = "running"

\* C30: a configuration without the weather section, or with a section that
\* lacks the API key, makes WeatherPlugin::new return an error value, which
\* spawn_plugins returns to the group task instead of a map of handles; the
\* group task returns it, and no control loop and no plugin task of that
\* generation exists.
C30_ConstructionErrorIsReturned ==
    plugins \in {NoSection, NoKey} =>
        \A i \in Servers :
            /\ ctl[i] = "none" /\ plug[i] = "none"
            /\ group[i] \in {"connect", "plugins", "err"}
            /\ conn[i] # NoConn /\ group[i] # "plugins" => group[i] = "err"

\* C31: at most one generation of a server's connection tasks is alive: no
\* connection left behind by an earlier generation has a read task or a write
\* task that runs, and a new generation is started only when the read task
\* and the write task of the one before have ended.
C31_OneGenerationAlive ==
    \A i \in Servers :
        /\ \A z \in zombies[i] : z.read # "running" /\ z.write # "running"
        /\ gen[i] > 1 /\ group[i] = "connect" => zombies[i] = {}

\* ------------------------------------------------------------------------
\* The control loop under a stream of PINGs and channel messages
\* ------------------------------------------------------------------------

\* The lines of the stream.
PingLines == 17

\* Line n of the stream: every fourth line is a notice, every other line is a
\* PING.
TrafficLine(n) ==
    IF n % 4 = 0
    THEN ServerPrefix \o <<"N", "O", "T", "I", "C", "E", SP, "*", SP, COLON, LineId(n), CR, LF>>
    ELSE <<"P", "I", "N", "G", SP, COLON, LineId(n), CR, LF>>

RECURSIVE TrafficBytes(_)
TrafficBytes(n) == IF n = 0 THEN 0 ELSE TrafficBytes(n - 1) + Len(TrafficLine(n))
TrafficEnds == [n \in 0..PingLines |-> TrafficBytes(n)]

\* A read of the socket returns the next line of the stream; after the last
\* line the socket is quiet.
TrafficReads(p) ==
    {[kind |-> "data", bytes |-> TrafficLine(n)] :
        n \in {m \in 1..PingLines : TrafficEnds[m - 1] = p}}

PingReadTask ==
    /\ ReadTaskReads(TrafficReads(wirePos))
    /\ UNCHANGED <<supVars, codecVars, outVars, subs>>

\* The control loop and the tasks of the connection; what the weather plugin
\* does with its subscription changes neither the channel nor the queue, as
\* no line of the stream makes it send.
PingNext ==
    \/ PingReadTask
    \/ ControlSend
    \/ ControlRecv
    \/ OutWriteTask

\* Weak fairness of the read task, with the enabling condition written out:
\* the task does not wait forever with a line to read.
ReadTaskFair ==
    \/ []<>(~CanPublish(TrafficReads(wirePos)))
    \/ []<><<PingReadTask>>_vars

\* Every task is scheduled again and again: the read task while the socket
\* has a line, the control loop while an event or room in the queue waits for
\* it, the write task while the queue holds a message.
PingSpec ==
    /\ OutInit
    /\ [][PingNext]_vars
    /\ ReadTaskFair
    /\ WF_vars(ControlSend)
    /\ WF_vars(ControlRecv)
    /\ WF_vars(OutWriteTask)

\* The PINGs of the stream, and for each the line that answers it: what
\* send_message gives for the message reply_pong sends.
PingNumbers == {n \in 1..PingLines : IsPing(process_buf(TrafficLine(n)).res[1])}
PongLine ==
    [n \in PingNumbers |->
        send_message(reply_pong(process_buf(TrafficLine(n)).res[1]).msgs[1]).bytes]

ConnectionUp == chConn.read = "running" /\ chConn.write = "running"

\* C32: every PING line the server has sent is eventually answered by its
\* PONG line on the socket, unless the connection goes down.
C32_EveryPingAnswered ==
    \A n \in PingNumbers :
        (wirePos >= TrafficEnds[n])
            ~> (~ConnectionUp \/ \E k \in 1..Len(sock) : sock[k] = PongLine[n])

\* ------------------------------------------------------------------------
\* The handshake at the start of the control loop
\* ------------------------------------------------------------------------

IsUser(msg) == msg.command = [tag |-> "Other", val |-> <<"U", "S", "E", "R">>]

\* The control loop has called recv: it holds an event or was told it lagged.
HasReceived == subs["control"].got # <<>> \/ subs["control"].lagged > 0

\* What the control loop has enqueued, in order.
ControlSent == SentBy(outLog, ControlSender)

\* C33: what the control loop has enqueued starts with USER and then the NICK
\* of the configured nickname, and no other USER follows; the control loop
\* takes no event before both are enqueued, so every Pong, fallback NICK and
\* JOIN it sends comes after them; when the enqueuing of USER or NICK has
\* failed the control loop has ended and has taken no event, and an ended
\* control loop takes and enqueues nothing.
C33_HandshakeFirst ==
    /\ [](/\ Len(ControlSent) >= 1 => IsUser(ControlSent[1])
          /\ Len(ControlSent) >= 2 => ControlSent[2] = Message_nick(ConfigNick)
          /\ \A k \in 3..Len(ControlSent) :
                /\ ~IsUser(ControlSent[k])
                /\ IsPing(ControlSent[k]) \/ IsNick(ControlSent[k]) \/ IsJoin(ControlSent[k])
          /\ ctlTask.pc = "auth" => Len(ControlSent) < 2 /\ ~HasReceived
          /\ HasReceived => Len(ControlSent) >= 2
          /\ Len(ControlSent) < 2 /\ ctlTask.pc # "auth" =>
                ctlTask.pc = "err" /\ ~HasReceived)
    /\ [][ctlTask.pc = "err" =>
            /\ ctlTask' = ctlTask
            /\ subs'["control"] = subs["control"]
            /\ SentBy(outLog', ControlSender) = ControlSent]_vars

\* USER and NICK were enqueued first, and after them the control loop has
\* enqueued a Pong, a fallback NICK and a JOIN for events it received.
C33_Witness ==
    LET sent == SentBy(outLog, ControlSender) IN
    /\ Len(sent) >= 5
    /\ IsUser(sent[1]) /\ sent[2] = Message_nick(ConfigNick)
    /\ \E k \in 3..Len(sent) : IsPing(sent[k])
    /\ \E k \in 3..Len(sent) : IsNick(sent[k])
    /\ \E k \in 3..Len(sent) : IsJoin(sent[k])

====
